---- MODULE Spec2Model ----
(***************************************************************************)
(* A model of the natural-language query router of Topdesk_MCP_python:     *)
(* the planner (src/app/planning.py), the FIQL helpers (src/app/fiql.py),  *)
(* the validators, the response normalisers and the plan executor          *)
(* (src/app/router.py).                                                    *)
(*                                                                         *)
(* Python strings are TLA+ strings (sequences of characters); Len, SubSeq  *)
(* and \o act on them as str length, slicing and concatenation do.  None   *)
(* is the model value NONE.                                                *)
(***************************************************************************)
EXTENDS Integers, Sequences, FiniteSets, TLC

NONE == "<None>"

(***************************************************************************)
(* Python str primitives.                                                  *)
(***************************************************************************)
UPPER == "ABCDEFGHIJKLMNOPQRSTUVWXYZ"
LOWER == "abcdefghijklmnopqrstuvwxyz"
DIGITS == "0123456789"

\* s[i-1:i] for a 1-based i
At(s, i) == SubSeq(s, i, i)

\* the set of characters of a string
CharsOf(s) == { At(s, i) : i \in 1..Len(s) }

UpperSet == CharsOf(UPPER)
LowerSet == CharsOf(LOWER)
DigitSet == CharsOf(DIGITS)
AlphaSet == UpperSet \cup LowerSet
\* \s of the re module, restricted to the whitespace the inputs use
SpaceSet == {" "}
\* \w of the re module
WordSet == AlphaSet \cup DigitSet \cup {"_"}

IndexIn(str, c) == CHOOSE i \in 1..Len(str) : At(str, i) = c

LowerChar(c) == IF c \in UpperSet THEN At(LOWER, IndexIn(UPPER, c)) ELSE c
UpperChar(c) == IF c \in LowerSet THEN At(UPPER, IndexIn(LOWER, c)) ELSE c

\* str.lower()
RECURSIVE lower(_)
lower(s) == IF s = "" THEN "" ELSE LowerChar(At(s, 1)) \o lower(SubSeq(s, 2, Len(s)))

\* s[i-1:] for a 1-based i
From(s, i) == SubSeq(s, i, Len(s))

\* s.startswith(t, i-1)
StartsAt(s, t, i) == i + Len(t) - 1 <= Len(s) /\ SubSeq(s, i, i + Len(t) - 1) = t

\* t in s
Contains(s, t) == \E i \in 1..(Len(s) - Len(t) + 1) : StartsAt(s, t, i)

\* str.strip() over the model's whitespace
RECURSIVE lstrip(_)
lstrip(s) == IF s # "" /\ At(s, 1) \in SpaceSet THEN lstrip(From(s, 2)) ELSE s
RECURSIVE rstrip(_)
rstrip(s) == IF s # "" /\ At(s, Len(s)) \in SpaceSet THEN rstrip(SubSeq(s, 1, Len(s) - 1)) ELSE s
strip(s) == rstrip(lstrip(s))

\* str.split(): the maximal runs of non-whitespace characters
RECURSIVE SplitFrom(_, _, _)
SplitFrom(s, i, cur) ==
    IF i > Len(s) THEN (IF cur = "" THEN <<>> ELSE <<cur>>)
    ELSE IF At(s, i) \in SpaceSet
         THEN (IF cur = "" THEN <<>> ELSE <<cur>>) \o SplitFrom(s, i + 1, "")
         ELSE SplitFrom(s, i + 1, cur \o At(s, i))
split(s) == SplitFrom(s, 1, "")

\* str.replace(old, new): every non-overlapping occurrence, left to right;
\* the replacement text is not scanned again
RECURSIVE replace(_, _, _)
replace(s, old, new) ==
    IF s = "" THEN ""
    ELSE IF StartsAt(s, old, 1) THEN new \o replace(From(s, Len(old) + 1), old, new)
    ELSE At(s, 1) \o replace(From(s, 2), old, new)

\* sep.join(parts)
RECURSIVE join(_, _)
join(sep, parts) ==
    IF parts = <<>> THEN ""
    ELSE IF Len(parts) = 1 THEN parts[1]
    ELSE parts[1] \o sep \o join(sep, Tail(parts))

\* int(s) for a string of decimal digits
RECURSIVE int(_)
int(s) == IF s = "" THEN 0 ELSE 10 * int(SubSeq(s, 1, Len(s) - 1)) + (IndexIn(DIGITS, At(s, Len(s))) - 1)

\* str(n) for a natural number
RECURSIVE str(_)
str(n) == IF n < 10 THEN At(DIGITS, n + 1) ELSE str(n \div 10) \o At(DIGITS, (n % 10) + 1)

(***************************************************************************)
(* The part of Python's re module the program uses: a pattern is a tree of *)
(* nodes, and Ms gives the matches of a node at a position in the order a  *)
(* backtracking matcher tries them (alternatives left to right, greedy     *)
(* repetition longest first), so that its first element is the match       *)
(* re.match reports.  A match is <<end, groups>>: the position after the   *)
(* last character consumed, and the text of capture groups 1 and 2.        *)
(***************************************************************************)
Lit(s) == [t |-> "lit", s |-> s]
Cls(c) == [t |-> "cls", c |-> c]
Cat(rs) == [t |-> "cat", rs |-> rs]
Alt(rs) == [t |-> "alt", rs |-> rs]
\* r{min,max}; max = -1 is unbounded
Rep(r, min, max) == [t |-> "rep", r |-> r, min |-> min, max |-> max]
Opt(r) == Rep(r, 0, 1)
Plus(r) == Rep(r, 1, -1)
Star(r) == Rep(r, 0, -1)
Grp(n, r) == [t |-> "grp", n |-> n, r |-> r]
WB == [t |-> "wb"]
BOL == [t |-> "bol"]
EOL == [t |-> "eol"]

NoGroups == <<NONE, NONE>>

IsWordAt(s, i) == i >= 1 /\ i <= Len(s) /\ At(s, i) \in WordSet

\* a character class under re.IGNORECASE matches either case of a letter
InClass(c, set, ic) == c \in set \/ (ic /\ (LowerChar(c) \in set \/ UpperChar(c) \in set))

LitAt(s, lit, p, ic) ==
    /\ p + Len(lit) - 1 <= Len(s)
    /\ IF ic THEN lower(SubSeq(s, p, p + Len(lit) - 1)) = lower(lit)
       ELSE SubSeq(s, p, p + Len(lit) - 1) = lit

\* the matches of a group's body, each with the text it consumed recorded
\* as group n
Captured(inner, n, s, p) ==
    [i \in 1..Len(inner) |->
       <<inner[i][1], [inner[i][2] EXCEPT ![n] = SubSeq(s, p, inner[i][1] - 1)]>>]

RECURSIVE Ms(_, _, _, _, _)
RECURSIVE CatMs(_, _, _, _, _)
RECURSIVE AltMs(_, _, _, _, _, _)
RECURSIVE RepMs(_, _, _, _, _)
RECURSIVE Spread(_, _, _, _, _, _)
RECURSIVE RepSpread(_, _, _, _, _, _)

\* the matches of rs[k..] continued from each match in sts, in order
Spread(rs, k, s, sts, i, ic) ==
    IF i > Len(sts) THEN <<>>
    ELSE CatMs(rs, k, s, sts[i], ic) \o Spread(rs, k, s, sts, i + 1, ic)

CatMs(rs, k, s, st, ic) ==
    IF k > Len(rs) THEN <<st>>
    ELSE Spread(rs, k + 1, s, Ms(rs[k], s, st[1], st[2], ic), 1, ic)

AltMs(rs, k, s, p, g, ic) ==
    IF k > Len(rs) THEN <<>>
    ELSE Ms(rs[k], s, p, g, ic) \o AltMs(rs, k + 1, s, p, g, ic)

\* one more repetition from each match in sts that consumed something
RepSpread(r, n, s, sts, i, ic) ==
    IF i > Len(sts) THEN <<>>
    ELSE RepMs(r, n, s, sts[i], ic) \o RepSpread(r, n, s, sts, i + 1, ic)

\* n repetitions done, standing at st: greedy, so one more repetition is tried
\* before stopping here
RepMs(r, n, s, st, ic) ==
    (IF r.max = -1 \/ n < r.max
     THEN RepSpread(r, n + 1, s,
                    SelectSeq(Ms(r.r, s, st[1], st[2], ic), LAMBDA m : m[1] > st[1]), 1, ic)
     ELSE <<>>)
    \o (IF n >= r.min THEN <<st>> ELSE <<>>)

MinOf(S) == CHOOSE x \in S : \A y \in S : x <= y

\* the repetition of a character class, which is RepMs without the recursion:
\* the class matches a run of characters, and the matches end after each
\* length from the longest allowed down to min
EndsFrom(hi, lo, g) == IF hi < lo THEN <<>> ELSE [i \in 1..(hi - lo + 1) |-> <<hi - i + 1, g>>]
RunTo(stop, r, p, g) ==
    EndsFrom(IF r.max # -1 /\ p + r.max < stop THEN p + r.max ELSE stop, p + r.min, g)
ClassRepMs(r, s, p, g, ic) ==
    RunTo(MinOf({q \in p..Len(s) : ~InClass(At(s, q), r.r.c, ic)} \cup {Len(s) + 1}), r, p, g)

Ms(r, s, p, g, ic) ==
    CASE r.t = "lit" -> IF LitAt(s, r.s, p, ic) THEN << <<p + Len(r.s), g>> >> ELSE <<>>
      [] r.t = "cls" -> IF p <= Len(s) /\ InClass(At(s, p), r.c, ic)
                        THEN << <<p + 1, g>> >> ELSE <<>>
      [] r.t = "cat" -> CatMs(r.rs, 1, s, <<p, g>>, ic)
      [] r.t = "alt" -> AltMs(r.rs, 1, s, p, g, ic)
      [] r.t = "rep" -> IF r.r.t = "cls" THEN ClassRepMs(r, s, p, g, ic)
                        ELSE RepMs(r, 0, s, <<p, g>>, ic)
      [] r.t = "grp" -> Captured(Ms(r.r, s, p, g, ic), r.n, s, p)
      [] r.t = "wb"  -> IF IsWordAt(s, p - 1) # IsWordAt(s, p) THEN << <<p, g>> >> ELSE <<>>
      [] r.t = "bol" -> IF p = 1 THEN << <<p, g>> >> ELSE <<>>
      [] r.t = "eol" -> IF p = Len(s) + 1 THEN << <<p, g>> >> ELSE <<>>

NoMatch == [found |-> FALSE]

\* the match object for the matches ms found at position p: the first of
\* them, or None
MatchObject(s, p, ms) ==
    IF ms = <<>> THEN NoMatch
    ELSE [found |-> TRUE, start |-> p, end |-> ms[1][1],
          group0 |-> SubSeq(s, p, ms[1][1] - 1), groups |-> ms[1][2]]

MatchAt(r, s, p, ic) == MatchObject(s, p, Ms(r, s, p, NoGroups, ic))

\* re.match(pattern, s, flags): anchored at the start
re_match(r, s, ic) == MatchAt(r, s, 1, ic)

\* re.search(pattern, s, flags): the match at the leftmost position that has one
SearchFrom(r, s, ic, starts) ==
    IF starts = {} THEN NoMatch ELSE MatchAt(r, s, MinOf(starts), ic)
re_search(r, s, ic) ==
    SearchFrom(r, s, ic, {p \in 1..(Len(s) + 1) : Ms(r, s, p, NoGroups, ic) # <<>>})

(***************************************************************************)
(* src/app/planning.py: the pattern tables of QueryPlanner.__init__.       *)
(***************************************************************************)
Sp == Plus(Cls(SpaceSet))
Sp0 == Star(Cls(SpaceSet))
Alpha == Cls(AlphaSet)
AlphaSp == Cls(AlphaSet \cup SpaceSet)
Digit == Cls(DigitSet)
\* [A-Za-z][A-Za-z\s]+[A-Za-z]
NameRe == Cat(<<Alpha, Plus(AlphaSp), Alpha>>)
\* (?:tickets?|incidents?|issues?)
TicketsRe == Alt(<<Cat(<<Lit("ticket"), Opt(Lit("s"))>>),
                   Cat(<<Lit("incident"), Opt(Lit("s"))>>),
                   Cat(<<Lit("issue"), Opt(Lit("s"))>>)>>)
\* (?:tickets?|incidents?)
TicketsOrIncidentsRe == Alt(<<Cat(<<Lit("ticket"), Opt(Lit("s"))>>),
                              Cat(<<Lit("incident"), Opt(Lit("s"))>>)>>)
\* (days?|weeks?|months?)
UnitRe == Alt(<<Cat(<<Lit("day"), Opt(Lit("s"))>>),
                Cat(<<Lit("week"), Opt(Lit("s"))>>),
                Cat(<<Lit("month"), Opt(Lit("s"))>>)>>)
\* \s*[=:]\s*
EqRe == Cat(<<Sp0, Cls({"=", ":"}), Sp0>>)
\* I-\d{6}-\d{3}
IncidentNumberRe == Cat(<<Lit("I-"), Rep(Digit, 6, 6), Lit("-"), Rep(Digit, 3, 3)>>)

person_patterns == <<
    Cat(<<WB, TicketsRe, Sp, Alt(<<Lit("of"), Lit("from"), Lit("by"), Lit("for")>>), Sp,
          Grp(1, NameRe)>>),
    Cat(<<WB, Grp(1, NameRe), Lit("'"), Opt(Lit("s")), Sp, TicketsRe>>),
    Cat(<<WB, Alt(<<Lit("user"), Lit("person"), Lit("caller")>>), Sp, Grp(1, NameRe)>>) >>

operator_patterns == <<
    Cat(<<WB, Alt(<<Cat(<<Lit("assigned"), Sp, Lit("to")>>), Lit("operator"), Lit("technician")>>),
          Sp, Grp(1, Plus(AlphaSp))>>),
    Cat(<<WB, Grp(1, Plus(AlphaSp)), Sp, Opt(Cat(<<Lit("is"), Sp>>)),
          Alt(<<Cat(<<Lit("working"), Sp, Lit("on")>>), Lit("handling")>>)>>) >>

StatusWordRe == Alt(<<Lit("open"), Lit("closed"), Lit("resolved"), Lit("pending"), Lit("new")>>)

status_patterns == <<
    Cat(<<WB, Grp(1, StatusWordRe), Sp, TicketsOrIncidentsRe>>),
    Cat(<<WB, TicketsOrIncidentsRe, Sp, Opt(Cat(<<Lit("that"), Sp, Lit("are"), Sp>>)),
          Grp(1, StatusWordRe)>>),
    Cat(<<WB, Lit("status"), EqRe, Grp(1, StatusWordRe)>>) >>

priority_patterns == <<
    Cat(<<WB, Grp(1, Alt(<<Lit("high"), Lit("low"), Lit("medium"), Lit("critical"), Lit("urgent")>>)),
          Sp, Lit("priority")>>),
    Cat(<<WB, Lit("priority"), EqRe,
          Grp(1, Alt(<<Lit("high"), Lit("low"), Lit("medium"), Lit("critical"), Lit("urgent")>>))>>),
    Cat(<<WB, Grp(1, Alt(<<Lit("critical"), Lit("urgent"), Lit("high"), Lit("medium"), Lit("low")>>)),
          Sp, TicketsOrIncidentsRe>>) >>

category_patterns == <<
    Cat(<<WB, Grp(1, Alt(<<Lit("change"), Lit("rfc"),
                           Cat(<<Lit("request"), Sp, Lit("for"), Sp, Lit("change")>>)>>)),
          Opt(Lit("s")), WB>>),
    Cat(<<WB, Lit("category"), EqRe, Grp(1, Plus(AlphaSp))>>) >>

incident_id_patterns == <<
    Cat(<<WB, Grp(1, IncidentNumberRe), WB>>),
    Cat(<<WB, Lit("incident"), Sp, Grp(1, IncidentNumberRe), WB>>),
    Cat(<<WB, Lit("ticket"), Sp, Grp(1, IncidentNumberRe), WB>>) >>

time_patterns == <<
    Cat(<<WB, Alt(<<Lit("last"), Lit("past"), Lit("recent")>>), Sp, Grp(1, Plus(Digit)), Sp,
          Grp(2, UnitRe)>>),
    Cat(<<WB, Grp(1, Plus(Digit)), Sp, Grp(2, UnitRe), Sp, Lit("ago")>>),
    Cat(<<WB, Lit("today"), WB>>),
    Cat(<<WB, Lit("yesterday"), WB>>),
    Cat(<<WB, Lit("this"), Sp, Grp(1, Alt(<<Lit("week"), Lit("month")>>))>>),
    Cat(<<WB, Lit("last"), Sp, Grp(1, Alt(<<Lit("week"), Lit("month")>>))>>) >>

(***************************************************************************)
(* src/app/planning.py: the extractors.  Each takes the lower-cased,       *)
(* trimmed query.  An Optional[str] is a string or NONE; an Optional[int]  *)
(* is <<n>> or <<>> for None; the Optional[List[str]] of the priorities is *)
(* the list, or <<>> for None (the code never returns an empty list).      *)
(***************************************************************************)
\* any(word in query for word in words)
AnyIn(query, words) == \E w \in words : Contains(query, w)

excluded_terms == {
    "user", "person", "caller", "someone", "tickets", "incidents",
    "changes", "problems", "issues", "requests", "email", "password",
    "network", "system", "server", "application", "last week", "yesterday",
    "recent", "open", "closed", "high", "low", "medium", "critical",
    "priority", "urgent" }

\* ^[A-Za-z\s\-\'\.]+$
NameCharsRe == Cat(<<BOL, Plus(Cls(AlphaSet \cup SpaceSet \cup {"-", "'", "."})), EOL>>)

\* the checks of _extract_person_name on a captured name
IsPersonName(name) ==
    /\ lower(name) \notin excluded_terms
    /\ Len(split(name)) <= 3
    /\ re_match(NameCharsRe, name, FALSE).found
    /\ 2 <= Len(name) /\ Len(name) <= 50

\* each extractor tries its patterns in order: XFrom(query, k) is the loop
\* from pattern k on, XOf(query, k, match) its body for the match of pattern k
RECURSIVE PersonFrom(_, _)
PersonOf(query, k, match) ==
    IF match.found /\ IsPersonName(strip(match.groups[1])) THEN strip(match.groups[1])
    ELSE PersonFrom(query, k + 1)
PersonFrom(query, k) ==
    IF k > Len(person_patterns) THEN NONE
    ELSE PersonOf(query, k, re_search(person_patterns[k], query, TRUE))
_extract_person_name(query) == PersonFrom(query, 1)

RECURSIVE OperatorFrom(_, _)
OperatorOf(query, k, match) ==
    IF match.found /\ lower(strip(match.groups[1])) \notin {"operator", "technician", "support"}
    THEN strip(match.groups[1])
    ELSE OperatorFrom(query, k + 1)
OperatorFrom(query, k) ==
    IF k > Len(operator_patterns) THEN NONE
    ELSE OperatorOf(query, k, re_search(operator_patterns[k], query, TRUE))
_extract_operator_name(query) == OperatorFrom(query, 1)

RECURSIVE IncidentIdFrom(_, _)
IncidentIdOf(query, k, match) ==
    IF match.found THEN match.groups[1] ELSE IncidentIdFrom(query, k + 1)
IncidentIdFrom(query, k) ==
    IF k > Len(incident_id_patterns) THEN NONE
    ELSE IncidentIdOf(query, k, re_search(incident_id_patterns[k], query, TRUE))
_extract_incident_id(query) == IncidentIdFrom(query, 1)

\* the status a captured word stands for
StatusOf(status) ==
    IF status \in {"open", "new", "pending"} THEN "open"
    ELSE IF status \in {"closed", "resolved"} THEN "closed"
    ELSE status

RECURSIVE StatusFrom(_, _)
StatusAt(query, k, match) ==
    IF match.found THEN StatusOf(lower(match.groups[1])) ELSE StatusFrom(query, k + 1)
StatusFrom(query, k) ==
    IF k > Len(status_patterns)
    THEN (IF AnyIn(query, {"open", "active", "unresolved", "pending"}) THEN "open" ELSE NONE)
    ELSE StatusAt(query, k, re_search(status_patterns[k], query, TRUE))
_extract_status(query) == StatusFrom(query, 1)

\* the priority a captured word stands for, as a list of at most one
PriorityOf(priority) ==
    IF priority \in {"critical", "urgent"} THEN <<"Critical">>
    ELSE IF priority = "high" THEN <<"High">>
    ELSE IF priority = "medium" THEN <<"Medium">>
    ELSE IF priority = "low" THEN <<"Low">>
    ELSE <<>>

\* every pattern adds its priority: the list is not cut at the first match
RECURSIVE PrioritiesFrom(_, _)
PrioritiesAt(query, k, match) ==
    (IF match.found THEN PriorityOf(lower(match.groups[1])) ELSE <<>>)
    \o PrioritiesFrom(query, k + 1)
PrioritiesFrom(query, k) ==
    IF k > Len(priority_patterns) THEN <<>>
    ELSE PrioritiesAt(query, k, re_search(priority_patterns[k], query, TRUE))
\* "priorities if priorities else None": None is <<>>
_extract_priority(query) == PrioritiesFrom(query, 1)

RECURSIVE CategoryFrom(_, _)
CategoryOf(query, k, match) ==
    IF /\ match.found
       /\ \/ Contains(lower(match.groups[1]), "change")
          \/ Contains(lower(match.groups[1]), "rfc")
    THEN "Change"
    ELSE CategoryFrom(query, k + 1)
CategoryFrom(query, k) ==
    IF k > Len(category_patterns) THEN NONE
    ELSE CategoryOf(query, k, re_search(category_patterns[k], query, TRUE))
_extract_category(query) == CategoryFrom(query, 1)

\* int(match.group(1)) raises ValueError for a group that is not a number and
\* match.group(2) raises IndexError for a pattern with one group: both are
\* caught, and the loop goes on with the next pattern
RECURSIVE TimeFrom(_, _)
\* the days of "N units": <<>> where the unit is none of day, week, month
DaysOf(number, unit) ==
    IF Contains(unit, "day") THEN <<number>>
    ELSE IF Contains(unit, "week") THEN <<number * 7>>
    ELSE IF Contains(unit, "month") THEN <<number * 30>>
    ELSE <<>>
\* the days a match stands for, <<>> where the loop goes on; g0 is the
\* lower-cased text matched
TimeOf(match, g0) ==
    IF Contains(g0, "today") THEN <<1>>
    ELSE IF Contains(g0, "yesterday") THEN <<2>>
    ELSE IF Contains(g0, "this week") THEN <<7>>
    ELSE IF Contains(g0, "last week") THEN <<14>>
    ELSE IF Contains(g0, "this month") THEN <<30>>
    ELSE IF Contains(g0, "last month") THEN <<60>>
    ELSE IF /\ match.groups[1] # NONE
            /\ CharsOf(match.groups[1]) \subseteq DigitSet
            /\ match.groups[2] # NONE
         THEN DaysOf(int(match.groups[1]), lower(match.groups[2]))
    ELSE <<>>
TimeAt(query, k, found) == IF found # <<>> THEN found ELSE TimeFrom(query, k + 1)
TimeMatch(query, k, match) ==
    IF match.found THEN TimeAt(query, k, TimeOf(match, lower(match.group0)))
    ELSE TimeFrom(query, k + 1)
TimeFrom(query, k) ==
    IF k > Len(time_patterns) THEN <<>>
    ELSE TimeMatch(query, k, re_search(time_patterns[k], query, TRUE))
_extract_time_constraint(query) == TimeFrom(query, 1)

_is_search_query(query) ==
    \/ Len(split(query)) <= 3
    \/ AnyIn(query, {"find", "search", "look for"})
    \/ ~AnyIn(query, {"status", "priority", "assigned", "operator", "for", "to"})
    \/ AnyIn(lower(query), {"email", "password", "network", "server", "application", "system",
                            "login", "access", "error", "problem", "issue", "bug", "crash"})

(***************************************************************************)
(* src/app/fiql.py.  A datetime is [day, sec]: the days since 1970-01-01   *)
(* and the second of that day.                                             *)
(***************************************************************************)
\* quoting that escapes the single quotes before the backslashes
QuoteValueQuotesFirst(value) ==
    IF value = "" THEN "''"
    ELSE "'" \o replace(replace(value, "'", "\\'"), "\\", "\\\\") \o "'"

quote_value(value) ==
    IF value = "" THEN "''"
    ELSE LET escaped == replace(replace(value, "\\", "\\\\"), "'", "\\'")
         IN  "'" \o escaped \o "'"

\* the proleptic Gregorian date of a day number, as datetime arithmetic gives it
CivilFromDays(day) ==
    LET z == day + 719468
        era == z \div 146097
        doe == z - era * 146097
        yoe == (doe - doe \div 1460 + doe \div 36524 - doe \div 146096) \div 365
        doy == doe - (365 * yoe + yoe \div 4 - yoe \div 100)
        mp == (5 * doy + 2) \div 153
        d == doy - (153 * mp + 2) \div 5 + 1
        m == IF mp < 10 THEN mp + 3 ELSE mp - 9
        y == yoe + era * 400 + (IF m <= 2 THEN 1 ELSE 0)
    IN  [year |-> y, month |-> m, day |-> d]

\* %02d and %04d
Pad2(n) == IF n < 10 THEN "0" \o str(n) ELSE str(n)
Pad4(n) == IF n < 10 THEN "000" \o str(n)
           ELSE IF n < 100 THEN "00" \o str(n)
           ELSE IF n < 1000 THEN "0" \o str(n) ELSE str(n)

\* dt.strftime('%Y-%m-%dT%H:%M:%SZ'); the tzinfo iso_utc attaches to a naive
\* datetime does not change the fields printed
iso_utc(dt) ==
    LET c == CivilFromDays(dt.day)
    IN  Pad4(c.year) \o "-" \o Pad2(c.month) \o "-" \o Pad2(c.day) \o "T"
        \o Pad2(dt.sec \div 3600) \o ":" \o Pad2((dt.sec \div 60) % 60) \o ":"
        \o Pad2(dt.sec % 60) \o "Z"

\* utcnow is the clock reading at the call
days_ago(utcnow, days) == iso_utc([day |-> utcnow.day - days, sec |-> utcnow.sec])

\* [part for part in parts if part and part.strip()]
and_join(parts) == join(";", SelectSeq(parts, LAMBDA part : part # "" /\ strip(part) # ""))

equals(field, value) == field \o "==" \o quote_value(value)

in_list(field, values) ==
    IF values = <<>> THEN ""
    ELSE field \o "=in=(" \o join(",", [i \in 1..Len(values) |-> quote_value(values[i])]) \o ")"

\* first_name and last_name are "" where the caller passes None; email is
\* never passed by the planner
build_person_query(first_name, last_name) ==
    and_join((IF first_name # "" THEN <<equals("firstName", first_name)>> ELSE <<>>)
             \o (IF last_name # "" THEN <<equals("surname", last_name)>> ELSE <<>>))

\* exact is True at the planner's only call
build_operator_query(name) == IF name = "" THEN "" ELSE equals("name", name)

(***************************************************************************)
(* src/app/validators.py                                                   *)
(***************************************************************************)
\* ^I-\d{6}-\d{3}$, matched without re.IGNORECASE
StrictIncidentNumberRe == Cat(<<BOL, IncidentNumberRe, EOL>>)

\* TRUE where the code returns the value, FALSE where it raises ValidationError
validate_incident_number(value) ==
    value # "" /\ re_match(StrictIncidentNumberRe, value, FALSE).found

(***************************************************************************)
(* src/app/schemas.py and the plan builders of src/app/planning.py.        *)
(* A payload is a record: the dict's keys are its fields.                  *)
(***************************************************************************)
PlanStep(step, action, tool_name, reasoning) ==
    [step |-> step, action |-> action, tool_name |-> tool_name, reasoning |-> reasoning]

ToolCall(name, payload) == [name |-> name, payload |-> payload]

QueryPlan(intent, steps, tool_calls, clarify, warnings) ==
    [intent |-> intent, steps |-> steps, tool_calls |-> tool_calls,
     clarify |-> clarify, warnings |-> warnings]

\* the truth value of an Optional[int]
TruthyInt(opt) == opt # <<>> /\ opt[1] # 0

DEFAULT_DAYS == 30
CATEGORY_DEFAULT_DAYS == 60

\* the default whatever the query says: the window of the query is lost
TimeDaysDefault(time_filter, default) == default

\* time_filter or default
TimeDays(time_filter, default) == IF TruthyInt(time_filter) THEN time_filter[1] ELSE default

\* a person plan without the single-name warning
PersonPlanUnwarned(person_name, status_filter, time_filter, max_results, utcnow) ==
    QueryPlan("Find incidents for person: " \o person_name,
              << PlanStep(1, "Look up person: " \o person_name, "topdesk_get_person_by_query",
                          "Need to find person ID for '" \o person_name
                             \o "' to search their incidents"),
                 PlanStep(2, "Get incidents for person (last "
                                \o str(TimeDays(time_filter, DEFAULT_DAYS)) \o " days)",
                          "topdesk_get_incidents_by_fiql_query",
                          "Retrieve incidents where caller is the found person, filtered by time and status") >>,
              << ToolCall("topdesk_get_person_by_query",
                          [fiql_query |-> build_person_query("", person_name)]),
                 ToolCall("topdesk_get_incidents_by_fiql_query",
                          [fiql_query |-> "caller.id==PLACEHOLDER;creationDate=ge="
                                             \o days_ago(utcnow, TimeDays(time_filter, DEFAULT_DAYS)),
                           page_size |-> max_results]) >>,
              NONE, <<>>)

_plan_person_query(person_name, status_filter, time_filter, max_results, utcnow) ==
    LET name_parts == split(person_name)
        person_fiql == IF Len(name_parts) >= 2
                       THEN build_person_query(name_parts[1], name_parts[Len(name_parts)])
                       ELSE build_person_query("", person_name)
        time_days == TimeDays(time_filter, DEFAULT_DAYS)
        incident_filters == (IF status_filter = "open" THEN <<"status!=Closed">> ELSE <<>>)
                            \o <<"creationDate=ge=" \o days_ago(utcnow, time_days)>>
        incident_query == and_join(incident_filters)
        steps == <<
            PlanStep(1, "Look up person: " \o person_name, "topdesk_get_person_by_query",
                     "Need to find person ID for '" \o person_name \o "' to search their incidents"),
            PlanStep(2, "Get incidents for person (last " \o str(time_days) \o " days)",
                     "topdesk_get_incidents_by_fiql_query",
                     "Retrieve incidents where caller is the found person, filtered by time and status") >>
        tool_calls == <<
            ToolCall("topdesk_get_person_by_query", [fiql_query |-> person_fiql]),
            ToolCall("topdesk_get_incidents_by_fiql_query",
                     [fiql_query |-> "caller.id==PLACEHOLDER;" \o incident_query,
                      page_size |-> max_results]) >>
        warnings == IF Len(name_parts) < 2
                    THEN <<"Single name '" \o person_name \o "' may match multiple people">>
                    ELSE <<>>
    IN  QueryPlan("Find incidents for person: " \o person_name, steps, tool_calls, NONE, warnings)

\* an operator plan whose marker clause is appended to the filter instead of
\* prepended
OperatorPlanClauseLast(operator_name, status_filter, time_filter, max_results, utcnow) ==
    QueryPlan("Find incidents assigned to operator: " \o operator_name,
              << PlanStep(1, "Look up operator: " \o operator_name,
                          "topdesk_get_operators_by_fiql_query",
                          "Need to find operator ID for '" \o operator_name
                             \o "' to search assigned incidents"),
                 PlanStep(2, "Get incidents assigned to operator (last "
                                \o str(TimeDays(time_filter, DEFAULT_DAYS)) \o " days)",
                          "topdesk_get_incidents_by_fiql_query",
                          "Retrieve incidents assigned to the found operator") >>,
              << ToolCall("topdesk_get_operators_by_fiql_query",
                          [fiql_query |-> build_operator_query(operator_name)]),
                 ToolCall("topdesk_get_incidents_by_fiql_query",
                          [fiql_query |-> "creationDate=ge="
                                             \o days_ago(utcnow, TimeDays(time_filter, DEFAULT_DAYS))
                                             \o ";operator.id==PLACEHOLDER",
                           page_size |-> max_results]) >>,
              NONE, <<>>)

_plan_operator_query(operator_name, status_filter, time_filter, max_results, utcnow) ==
    LET operator_fiql == build_operator_query(operator_name)
        time_days == TimeDays(time_filter, DEFAULT_DAYS)
        incident_filters == (IF status_filter = "open" THEN <<"status!=Closed">> ELSE <<>>)
                            \o <<"creationDate=ge=" \o days_ago(utcnow, time_days)>>
        incident_query == and_join(incident_filters)
        steps == <<
            PlanStep(1, "Look up operator: " \o operator_name, "topdesk_get_operators_by_fiql_query",
                     "Need to find operator ID for '" \o operator_name \o "' to search assigned incidents"),
            PlanStep(2, "Get incidents assigned to operator (last " \o str(time_days) \o " days)",
                     "topdesk_get_incidents_by_fiql_query",
                     "Retrieve incidents assigned to the found operator") >>
        tool_calls == <<
            ToolCall("topdesk_get_operators_by_fiql_query", [fiql_query |-> operator_fiql]),
            ToolCall("topdesk_get_incidents_by_fiql_query",
                     [fiql_query |-> "operator.id==PLACEHOLDER;" \o incident_query,
                      page_size |-> max_results]) >>
    IN  QueryPlan("Find incidents assigned to operator: " \o operator_name, steps, tool_calls,
                  NONE, <<>>)

_plan_category_query(category, status_filter, priority_filter, time_filter, max_results, utcnow) ==
    LET time_days == TimeDays(time_filter, CATEGORY_DEFAULT_DAYS)
        fiql_parts == <<"category.name=='" \o category \o "'">>
                      \o (IF status_filter = "open" THEN <<"status!=Closed">> ELSE <<>>)
                      \o (IF priority_filter # <<>>
                          THEN <<in_list("priority.name", priority_filter)>> ELSE <<>>)
                      \o <<"creationDate=ge=" \o days_ago(utcnow, time_days)>>
        fiql_query == and_join(fiql_parts)
        steps == << PlanStep(1, "Get " \o category \o " incidents (last " \o str(time_days) \o " days)",
                             "topdesk_get_incidents_by_fiql_query",
                             "Search for incidents in " \o category
                                \o " category with specified filters") >>
        tool_calls == << ToolCall("topdesk_get_incidents_by_fiql_query",
                                  [fiql_query |-> fiql_query, page_size |-> max_results]) >>
    IN  QueryPlan("Find " \o category \o " incidents", steps, tool_calls, NONE, <<>>)

_plan_search_query(query, time_filter, max_results) ==
    LET steps == << PlanStep(1, "Search for: " \o query, "search",
                             "Simple text search across incident data") >>
        tool_calls == << ToolCall("search", [query |-> query, max_results |-> max_results]) >>
        warnings == IF TruthyInt(time_filter)
                    THEN <<"Time filter of " \o str(time_filter[1])
                             \o " days may not be applied to search results">>
                    ELSE <<>>
    IN  QueryPlan("Search for: " \o query, steps, tool_calls, NONE, warnings)

\* a filter plan that names the date of its lower bound in the step
FiqlPlanDated(query, status_filter, priority_filter, time_filter, max_results, utcnow) ==
    QueryPlan("Find incidents matching filters",
              << PlanStep(1, "Query incidents created since "
                                \o days_ago(utcnow, TimeDays(time_filter, DEFAULT_DAYS)),
                          "topdesk_get_incidents_by_fiql_query",
                          "Use FIQL to filter incidents by status, priority, and time") >>,
              << ToolCall("topdesk_get_incidents_by_fiql_query",
                          [fiql_query |->
                               and_join((IF status_filter = "open" THEN <<"status!=Closed">>
                                         ELSE <<>>)
                                        \o (IF priority_filter # <<>>
                                            THEN <<in_list("priority.name", priority_filter)>>
                                            ELSE <<>>)
                                        \o <<"creationDate=ge="
                                               \o days_ago(utcnow,
                                                           TimeDays(time_filter, DEFAULT_DAYS))>>),
                           page_size |-> max_results]) >>,
              NONE, <<>>)

_plan_fiql_query(query, status_filter, priority_filter, time_filter, max_results, utcnow) ==
    LET time_days == TimeDays(time_filter, DEFAULT_DAYS)
        fiql_parts == (IF status_filter = "open" THEN <<"status!=Closed">> ELSE <<>>)
                      \o (IF priority_filter # <<>>
                          THEN <<in_list("priority.name", priority_filter)>> ELSE <<>>)
                      \o <<"creationDate=ge=" \o days_ago(utcnow, time_days)>>
        fiql_query == and_join(fiql_parts)
        steps == << PlanStep(1, "Query incidents with filters (last " \o str(time_days) \o " days)",
                             "topdesk_get_incidents_by_fiql_query",
                             "Use FIQL to filter incidents by status, priority, and time") >>
        tool_calls == << ToolCall("topdesk_get_incidents_by_fiql_query",
                                  [fiql_query |-> fiql_query, page_size |-> max_results]) >>
    IN  QueryPlan("Find incidents matching filters", steps, tool_calls, NONE, <<>>)

_plan_complete_incident(incident_id, original_query) ==
    IF ~validate_incident_number(incident_id)
    THEN QueryPlan("Invalid incident ID", <<>>, <<>>,
                   "Invalid incident number format: " \o incident_id
                      \o ". Expected format: I-YYMMDD-NNN", <<>>)
    ELSE QueryPlan("Get complete details for incident " \o incident_id,
                   << PlanStep(1, "Get complete overview for incident " \o incident_id,
                               "topdesk_get_complete_incident_overview",
                               "Retrieve full details for incident " \o incident_id) >>,
                   << ToolCall("topdesk_get_complete_incident_overview",
                               [incident_id |-> incident_id]) >>,
                   NONE, <<>>)

\* a clarification that also plans a search: what C6 excludes
ClarificationWithSearch(query) ==
    QueryPlan("Clarification needed",
              << PlanStep(1, "Search for: " \o query, "search",
                          "Simple text search across incident data") >>,
              << ToolCall("search", [query |-> query, max_results |-> 5]) >>,
              "Your query is ambiguous. Please specify:\n- What specific information you need",
              <<>>)

_plan_clarification(query) ==
    LET clarification_msg ==
            "Your query is ambiguous. Please specify:\n"
            \o (IF AnyIn(lower(query), {"sander", "john", "jane"})
                THEN "- The full name of the person you're asking about\n" ELSE "")
            \o (IF Contains(lower(query), "ticket") \/ Contains(lower(query), "incident")
                THEN "- Whether you want open/closed incidents\n"
                     \o "- The time period you're interested in\n"
                ELSE "")
            \o "- What specific information you need"
    IN  QueryPlan("Clarification needed", <<>>, <<>>, clarification_msg, <<>>)

\* the extractor results plan_query holds in its local variables
Extract(query) ==
    [person_match |-> _extract_person_name(query),
     operator_match |-> _extract_operator_name(query),
     incident_id |-> _extract_incident_id(query),
     status_filter |-> _extract_status(query),
     priority_filter |-> _extract_priority(query),
     category_filter |-> _extract_category(query),
     time_filter |-> _extract_time_constraint(query)]

\* the truth value of an Optional[str]
TruthyStr(opt) == opt # NONE /\ opt # ""

OverviewWords == {"complete", "full", "overview", "details", "all"}

\* plan_query with the search-style test moved before the person test: the
\* order of the branches is what C7 is about
PlanBranchSearchFirst(query, e) ==
    IF TruthyStr(e.incident_id) /\ AnyIn(query, OverviewWords) THEN "complete_incident"
    ELSE IF _is_search_query(query) THEN "search"
    ELSE IF TruthyStr(e.person_match) THEN "person"
    ELSE IF TruthyStr(e.operator_match) THEN "operator"
    ELSE IF TruthyStr(e.category_filter) THEN "category"
    ELSE IF \/ TruthyStr(e.status_filter) \/ e.priority_filter # <<>> \/ TruthyInt(e.time_filter)
            \/ Len(split(query)) > 5
         THEN "fiql"
    ELSE "clarification"

\* plan_query that takes a query for long from seven tokens on
PlanBranchLongFromSeven(query, e) ==
    IF TruthyStr(e.incident_id) /\ AnyIn(query, OverviewWords) THEN "complete_incident"
    ELSE IF TruthyStr(e.person_match) THEN "person"
    ELSE IF TruthyStr(e.operator_match) THEN "operator"
    ELSE IF TruthyStr(e.category_filter) THEN "category"
    ELSE IF _is_search_query(query) THEN "search"
    ELSE IF \/ TruthyStr(e.status_filter) \/ e.priority_filter # <<>> \/ TruthyInt(e.time_filter)
            \/ Len(split(query)) > 6
         THEN "fiql"
    ELSE "clarification"

\* the branch of plan_query taken for the normalized query and its extractor
\* results e, named by the builder it returns through
PlanBranch(query, e) ==
    IF TruthyStr(e.incident_id) /\ AnyIn(query, OverviewWords) THEN "complete_incident"
    ELSE IF TruthyStr(e.person_match) THEN "person"
    ELSE IF TruthyStr(e.operator_match) THEN "operator"
    ELSE IF TruthyStr(e.category_filter) THEN "category"
    ELSE IF _is_search_query(query) THEN "search"
    ELSE IF \/ TruthyStr(e.status_filter) \/ e.priority_filter # <<>> \/ TruthyInt(e.time_filter)
            \/ Len(split(query)) > 5
         THEN "fiql"
    ELSE "clarification"

\* the plan of each branch (planning.py lines 88-114)
PlanOf(branch, query, e, max_results, utcnow) ==
    CASE branch = "complete_incident" -> _plan_complete_incident(e.incident_id, query)
      [] branch = "person" ->
            _plan_person_query(e.person_match, e.status_filter, e.time_filter,
                               max_results, utcnow)
      [] branch = "operator" ->
            _plan_operator_query(e.operator_match, e.status_filter, e.time_filter,
                                 max_results, utcnow)
      [] branch = "category" ->
            _plan_category_query(e.category_filter, e.status_filter, e.priority_filter,
                                 e.time_filter, max_results, utcnow)
      [] branch = "search" -> _plan_search_query(query, e.time_filter, max_results)
      [] branch = "fiql" ->
            _plan_fiql_query(query, e.status_filter, e.priority_filter, e.time_filter,
                             max_results, utcnow)
      [] OTHER -> _plan_clarification(query)

\* plan_query from its normalized query and the extractor results on
PlanFrom(query, e, max_results, utcnow) ==
    PlanOf(PlanBranch(query, e), query, e, max_results, utcnow)

\* query = query.lower().strip()
NormalizeQuery(query) == strip(lower(query))

PlanNormalized(q, max_results, utcnow) == PlanFrom(q, Extract(q), max_results, utcnow)
plan_query(query, max_results, utcnow) ==
    PlanNormalized(NormalizeQuery(query), max_results, utcnow)

(***************************************************************************)
(* src/app/normalize.py.  A value decoded from JSON, or built by the       *)
(* normalisers, is a tagged record [j, v]: a dict holds a record of        *)
(* values, a list a sequence of values; None is JNull.                     *)
(***************************************************************************)
JDict(r) == [j |-> "dict", v |-> r]
JList(l) == [j |-> "list", v |-> l]
JStr(s) == [j |-> "str", v |-> s]
JInt(n) == [j |-> "int", v |-> n]
JNull == [j |-> "null", v |-> "None"]

\* bool(x)
Truthy(x) ==
    CASE x.j = "dict" -> DOMAIN x.v # {}
      [] x.j = "list" -> x.v # <<>>
      [] x.j = "str" -> x.v # ""
      [] x.j = "int" -> x.v # 0
      [] OTHER -> FALSE

\* str(x), as an f-string formats x; a str or an int
Format(x) == IF x.j = "int" THEN str(x.v) ELSE x.v

\* key in data, for a dict
HasKey(data, key) == data.j = "dict" /\ key \in DOMAIN data.v

\* safe_get(data, key, default=default)
safe_get(data, key, default) == IF HasKey(data, key) THEN data.v[key] ELSE default

\* a or b
Or(a, b) == IF Truthy(a) THEN a ELSE b

\* what a call that raised leaves in place of its value
RAISED == [j |-> "raised", v |-> "raised"]
IsRaised(x) == x.j = "raised"

\* safe_get(person_data, key, default="").strip(): only a str has strip
StrippedField(person_data, key) ==
    LET x == safe_get(person_data, key, JStr(""))
    IN  IF x.j = "str" THEN JStr(strip(x.v)) ELSE RAISED

\* normalize_person_name with the three stripped fields at hand
NameOfPerson(person_data, first_name, last_name, display_name) ==
    IF IsRaised(first_name) \/ IsRaised(last_name) \/ IsRaised(display_name) THEN RAISED
    ELSE IF display_name.v # "" THEN display_name
    ELSE IF first_name.v # "" /\ last_name.v # ""
         THEN JStr(first_name.v \o " " \o last_name.v)
    ELSE IF first_name.v # "" THEN first_name
    ELSE IF last_name.v # "" THEN last_name
    ELSE safe_get(person_data, "name", JStr(""))

normalize_person_name(person_data) ==
    IF ~Truthy(person_data) \/ person_data.j # "dict" THEN JStr("")
    ELSE NameOfPerson(person_data, StrippedField(person_data, "firstName"),
                      StrippedField(person_data, "surname"),
                      StrippedField(person_data, "dynamicName"))

\* person_list[0] after "person_list and len(person_list) > 0": the first
\* element of a list, the first character of a str; RAISED where len() or
\* the subscript raises (an int, a dict without the key 0)
FirstOf(list) ==
    CASE list.j = "list" -> list.v[1]
      [] list.j = "str" -> JStr(At(list.v, 1))
      [] OTHER -> RAISED

\* "if person_list and len(person_list) > 0: person_data = person_list[0]"
FirstIn(list) == IF Truthy(list) THEN FirstOf(list) ELSE JNull

\* the record a lookup response is about: JNull for none, RAISED where the
\* code raises on the way (lines 233-248 and 277-292)
LookupData(response, direct, list_key) ==
    IF response.j # "dict" THEN JNull
    ELSE IF direct THEN response
    ELSE FirstIn(Or(safe_get(response, list_key, JList(<<>>)),
                    Or(safe_get(response, "data", JList(<<>>)),
                       safe_get(response, "results", JList(<<>>)))))

\* the dict normalize_person_response returns for person_data (lines 253-259)
PersonRecord(person_data, name) ==
    IF IsRaised(name) THEN JNull
    ELSE JDict([id |-> safe_get(person_data, "id", JStr("")),
                name |-> name,
                email |-> safe_get(person_data, "email", JStr("")),
                firstName |-> safe_get(person_data, "firstName", JStr("")),
                surname |-> safe_get(person_data, "surname", JStr(""))])

PersonOfData(person_data) ==
    IF IsRaised(person_data) THEN JNull
    ELSE IF ~Truthy(person_data) THEN JNull
    ELSE PersonRecord(person_data, normalize_person_name(person_data))

\* None is JNull; an exception inside is caught and gives None as well
normalize_person_response(response) ==
    PersonOfData(LookupData(response,
                            HasKey(response, "id") \/ HasKey(response, "firstName")
                               \/ HasKey(response, "surname"),
                            "persons"))

OperatorOfData(operator_data) ==
    IF IsRaised(operator_data) THEN JNull
    ELSE IF ~Truthy(operator_data) THEN JNull
    ELSE JDict([id |-> safe_get(operator_data, "id", JStr("")),
                name |-> safe_get(operator_data, "name", JStr("")),
                firstName |-> safe_get(operator_data, "firstName", JStr("")),
                surname |-> safe_get(operator_data, "surname", JStr(""))])

normalize_operator_response(response) ==
    OperatorOfData(LookupData(response, HasKey(response, "id") /\ HasKey(response, "name"),
                              "operators"))

\* a field that is a str or an object with a name (status, priority,
\* operatorGroup): the name, or str() of the value, or default (NONE for None)
NamedField(incident_data, key, default) ==
    LET data == safe_get(incident_data, key, JNull)
    IN  IF data.j = "dict"
        THEN (IF HasKey(data, "name") THEN Format(data.v.name) ELSE default)
        ELSE IF Truthy(data) THEN Format(data) ELSE default

\* normalize_person_name(data) if data else None
PersonField(incident_data, key) ==
    LET data == safe_get(incident_data, key, JNull)
    IN  IF Truthy(data) THEN normalize_person_name(data).v ELSE NONE

\* the incidents of the model carry no creationDate, and their fields are of
\* the types the schema wants, so that normalize_datetime gives "" and the
\* fallback of the except branch is not taken
normalize_incident(incident_data) ==
    [id |-> Format(safe_get(incident_data, "id", JStr(""))),
     number |-> Format(safe_get(incident_data, "number", JStr(""))),
     title |-> Format(safe_get(incident_data, "briefDescription", JStr(""))),
     status |-> NamedField(incident_data, "status", "Unknown"),
     created_at |-> "",
     priority |-> NamedField(incident_data, "priority", NONE),
     caller |-> PersonField(incident_data, "caller"),
     operator |-> PersonField(incident_data, "operator"),
     operator_group |-> NamedField(incident_data, "operatorGroup", NONE)]

\* the dicts of a list, normalized in order; what is not a dict is skipped
RECURSIVE NormalizeEach(_)
NormalizeEach(list) ==
    IF list = <<>> THEN <<>>
    ELSE (IF Head(list).j = "dict" THEN <<normalize_incident(Head(list))>> ELSE <<>>)
         \o NormalizeEach(Tail(list))

normalize_incidents_response(response) ==
    LET incident_list ==
            IF response.j = "list" THEN response
            ELSE IF response.j = "dict"
            THEN Or(safe_get(response, "incidents", JList(<<>>)),
                    Or(safe_get(response, "data", JList(<<>>)),
                       Or(safe_get(response, "results", JList(<<>>)), JList(<<>>))))
            ELSE JList(<<>>)
    IN  IF incident_list.j = "list" THEN NormalizeEach(incident_list.v) ELSE <<>>

(***************************************************************************)
(* src/app/summarize.py                                                    *)
(***************************************************************************)
\* Counter(xs): the distinct truthy items in order of first occurrence, each
\* with its count, as <<item, count>>
RECURSIVE Counter(_)
Counter(xs) ==
    IF xs = <<>> THEN <<>>
    ELSE LET x == xs[Len(xs)]
             before == Counter(SubSeq(xs, 1, Len(xs) - 1))
         IN  IF ~TruthyStr(x) THEN before
             ELSE IF \E i \in 1..Len(before) : before[i][1] = x
                  THEN [i \in 1..Len(before) |->
                          IF before[i][1] = x THEN <<x, before[i][2] + 1>> ELSE before[i]]
                  ELSE Append(before, <<x, 1>>)

\* sum(counter.values())
RECURSIVE Total(_)
Total(counter) == IF counter = <<>> THEN 0 ELSE counter[1][2] + Total(Tail(counter))

\* counter.most_common(n): by count, largest first; ties keep their order
Without(counter, n) == SubSeq(counter, 1, n - 1) \o SubSeq(counter, n + 1, Len(counter))
RECURSIVE most_common(_, _)
TopFirst(counter, top, n) == <<counter[top]>> \o most_common(Without(counter, top), n - 1)
most_common(counter, n) ==
    IF n = 0 \/ counter = <<>> THEN <<>>
    ELSE TopFirst(counter,
                  MinOf({k \in 1..Len(counter) :
                           \A m \in 1..Len(counter) : counter[m][2] <= counter[k][2]}),
                  n)

\* ", ".join(parts) for up to two parts, else the first two and the rest
ListParts(parts) ==
    IF Len(parts) <= 2 THEN join(", ", parts)
    ELSE IF Len(parts) - 2 = 1 THEN join(", ", SubSeq(parts, 1, 2)) \o ", " \o parts[3]
    ELSE join(", ", SubSeq(parts, 1, 2)) \o ", " \o str(Len(parts) - 2) \o " others"

\* _format_counter_summary from its most_common list on
FormatCommon(common, total) ==
    IF Len(common) = 1
    THEN (IF common[1][2] = total THEN "all " \o common[1][1]
          ELSE str(common[1][2]) \o " " \o common[1][1])
    ELSE ListParts([k \in 1..Len(common) |-> str(common[k][2]) \o " " \o common[k][1]])

_format_counter_summary(counter, top_n) ==
    IF counter = <<>> THEN "" ELSE FormatCommon(most_common(counter, top_n), Total(counter))

NameOf(name, parts) == IF Len(parts) > 2 THEN parts[1] \o " " \o parts[Len(parts)] ELSE name
_format_name(name) == IF name = "" THEN "" ELSE NameOf(name, split(strip(name)))

\* [inc.field for inc in incidents]
Column(incidents, field) == [k \in 1..Len(incidents) |-> incidents[k][field]]

\* the number of incidents whose priority is high, critical or urgent
HighPriority(priority_counts) ==
    Total(SelectSeq(priority_counts,
                    LAMBDA pc_ : lower(pc_[1]) \in {"high", "critical", "urgent"}))

\* the parts of the summary, each a list of the parts it appends
CountPart(count) ==
    IF count = 1 THEN <<"Found 1 incident">> ELSE <<"Found " \o str(count) \o " incidents">>
PartOf(text) == IF text # "" THEN <<text>> ELSE <<>>
StatusPart(status_counts) ==
    IF status_counts # <<>> THEN PartOf(_format_counter_summary(status_counts, 3)) ELSE <<>>
HighPart(high_priority) ==
    IF high_priority > 0 THEN <<str(high_priority) \o " high priority">> ELSE <<>>
PriorityPart(priority_counts) ==
    IF priority_counts # <<>> THEN HighPart(HighPriority(priority_counts)) ELSE <<>>
TopPart(top) == IF top[2] > 1 THEN <<str(top[2]) \o " to " \o _format_name(top[1])>> ELSE <<>>
OperatorPart(operator_counts) ==
    IF operator_counts # <<>>
    THEN <<str(Total(operator_counts)) \o " assigned">>
         \o TopPart(most_common(operator_counts, 1)[1])
    ELSE <<>>
CallerPart(caller_counts, q) ==
    IF Len(caller_counts) = 1 /\ Contains(q, caller_counts[1][1])
    THEN <<"for " \o _format_name(caller_counts[1][1])>> ELSE <<>>
TimePart(q) ==
    IF Contains(q, "recent") \/ Contains(q, "last") \/ AnyIn(q, {"today", "yesterday"})
    THEN <<"(recent)">> ELSE <<>>

\* two parts are joined by a space, more by commas
Joined(summary_parts) ==
    IF Len(summary_parts) <= 2 THEN join(" ", summary_parts) ELSE join(", ", summary_parts)
Sentence(summary) == IF At(summary, Len(summary)) = "." THEN summary ELSE summary \o "."

\* a summary without the case of the empty list
SummarizeCounted(incidents, original_query) ==
    IF incidents = <<>> THEN "Found 0 incidents."
    ELSE Sentence(Joined(CountPart(Len(incidents))
                         \o StatusPart(Counter(Column(incidents, "status")))
                         \o TimePart(lower(original_query))))

summarize_incidents(incidents, original_query) ==
    IF incidents = <<>> THEN "No incidents found matching your query."
    ELSE Sentence(Joined(CountPart(Len(incidents))
                         \o StatusPart(Counter(Column(incidents, "status")))
                         \o PriorityPart(Counter(Column(incidents, "priority")))
                         \o OperatorPart(Counter(Column(incidents, "operator")))
                         \o CallerPart(Counter(Column(incidents, "caller")),
                                       lower(original_query))
                         \o TimePart(lower(original_query))))

\* s.split(" ")[1] and s.split(" ", 2)[2] of a summary that starts "Found "
AfterSpace(s) == From(s, MinOf({k \in 1..Len(s) : At(s, k) = " "} \cup {Len(s)}) + 1)
UpToSpace(s) == SubSeq(s, 1, MinOf({k \in 1..Len(s) : At(s, k) = " "} \cup {Len(s) + 1}) - 1)

\* "{name} {verb} {count_part} incidents {rest}" from the text after "Found "
Rephrased(name, verb, tail) ==
    strip(name \o " " \o verb \o " " \o UpToSpace(tail) \o " incidents "
          \o (IF Contains(tail, " ") THEN AfterSpace(tail) ELSE ""))
WithName(name, verb, incident_summary) ==
    IF StartsAt(incident_summary, "Found ", 1)
    THEN Rephrased(name, verb, AfterSpace(incident_summary))
    ELSE name \o ": " \o incident_summary

\* the summary of a resolved person or operator; verb is "has" or
\* "is assigned", none is what follows "but no" for an empty result
LookupSummary(name, incidents, original_query, verb, none) ==
    IF incidents = <<>> THEN "Found " \o name \o " but no " \o none \o " match your criteria."
    ELSE WithName(name, verb, summarize_incidents(incidents, original_query))

\* person_info is a normalized record here: _generate_summary passes what
\* _normalize_results stored, which is never None
summarize_person_lookup(person_info, incidents, original_query) ==
    LookupSummary(Format(person_info.v.name), incidents, original_query, "has", "incidents")

summarize_operator_lookup(operator_info, incidents, original_query) ==
    LookupSummary(Format(operator_info.v.name), incidents, original_query,
                  "is assigned", "assigned incidents")

\* "not found" is answered by what the query is about
NotFoundSummary(query_lower) ==
    IF AnyIn(query_lower, {"person", "user", "caller"})
    THEN "The person you're looking for was not found. Please check the name spelling."
    ELSE IF AnyIn(query_lower, {"operator", "technician"})
    THEN "The operator you're looking for was not found. Please check the name spelling."
    ELSE "The requested information was not found."

ErrorClass(error_lower, query) ==
    IF Contains(error_lower, "timeout")
    THEN "The request took too long to complete. Please try again or refine your query."
    ELSE IF Contains(error_lower, "circuit") /\ Contains(error_lower, "open")
    THEN "The TOPdesk service is currently unavailable. Please try again in a few minutes."
    ELSE IF Contains(error_lower, "rate limit")
    THEN "Too many requests. Please wait a moment before trying again."
    ELSE IF Contains(error_lower, "not found") THEN NotFoundSummary(lower(query))
    ELSE IF Contains(error_lower, "invalid")
    THEN "Your query contains invalid parameters. Please check your input and try again."
    ELSE IF Contains(error_lower, "permission") \/ Contains(error_lower, "unauthorized")
    THEN "Access denied. You may not have permission to view this information."
    ELSE "An error occurred while processing your request. Please try again or contact support."

generate_error_summary(error_msg, query) == ErrorClass(lower(error_msg), query)

\* sanitize_for_logging(data, max_depth) of src/app/normalize.py.  A key is
\* lowered before the names are looked for in it, so 'personalDetails' and
\* 'briefDescription', which are not lower case, never match and are left
\* out of the two sets.
pii_fields == {"password", "api_key", "token", "secret", "credential", "email", "phone",
               "ssn", "address"}
truncate_fields == {"request", "action", "memo"}
\* value[:100] + "..." if len(value) > 100 else value
Truncated(value) ==
    IF Len(value.v) > 100 THEN JStr(SubSeq(value.v, 1, 100) \o "...") ELSE value
RECURSIVE sanitize_for_logging(_, _)
sanitize_for_logging(data, max_depth) ==
    IF max_depth <= 0 THEN JStr("...")
    ELSE CASE data.j = "dict" ->
                JDict([key \in {x \in DOMAIN data.v : ~AnyIn(lower(x), pii_fields)} |->
                         IF AnyIn(lower(key), truncate_fields) /\ data.v[key].j = "str"
                         THEN Truncated(data.v[key])
                         ELSE sanitize_for_logging(data.v[key], max_depth - 1)])
           [] data.j = "list" ->
                JList([n \in 1..(IF Len(data.v) < 5 THEN Len(data.v) ELSE 5) |->
                         sanitize_for_logging(data.v[n], max_depth - 1)])
           [] data.j = "str" /\ Len(data.v) > 200 -> JStr(SubSeq(data.v, 1, 200) \o "...")
           [] OTHER -> data

(***************************************************************************)
(* src/app/router.py.  The dict raw_responses is a sequence of             *)
(* [key, response] in insertion order, its keys distinct.                  *)
(***************************************************************************)
\* repr() of a str: double quotes when it holds ' and no ", else single
PyRepr(x) ==
    LET e == replace(x, "\\", "\\\\")
    IN  IF Contains(e, "'") /\ ~Contains(e, "\"") THEN "\"" \o e \o "\""
        ELSE "'" \o replace(e, "'", "\\'") \o "'"

\* the keys a payload can have, in the order the planner inserts them
PayloadKeys == <<"fiql_query", "query", "incident_id", "page_size", "max_results">>
IntKeys == {"page_size", "max_results"}

\* str(tool_call.payload)
PayloadStr(payload) ==
    LET keys == SelectSeq(PayloadKeys, LAMBDA key : key \in DOMAIN payload)
        items == [n \in 1..Len(keys) |->
                    "'" \o keys[n] \o "': "
                    \o (IF keys[n] \in IntKeys THEN str(payload[keys[n]])
                        ELSE PyRepr(payload[keys[n]]))]
    IN  "{" \o join(", ", items) \o "}"

\* f"step_{i+1}_{tool_call.name}" for the loop index i, which starts at 0
StepKey(i, name) == "step_" \o str(i + 1) \o "_" \o name

\* what the response of an entry normalizes to in the scan for word
\* ("person" or "operator"); JNull for an entry the scan skips
InfoOf(entry, word) ==
    IF ~Contains(entry.key, word) THEN JNull
    ELSE IF word = "person" THEN normalize_person_response(entry.response)
    ELSE normalize_operator_response(entry.response)

\* the id of the first previous response under a key that holds the word
\* and that normalizes to a record with a truthy id: <<id>>, or <<>> for None
RECURSIVE FoundId(_, _, _)
FoundIn(previous_responses, word, n, info) ==
    IF Truthy(info) /\ Truthy(safe_get(info, "id", JNull)) THEN <<Format(info.v.id)>>
    ELSE FoundId(previous_responses, word, n + 1)
FoundId(previous_responses, word, n) ==
    IF n > Len(previous_responses) THEN <<>>
    ELSE FoundIn(previous_responses, word, n, InfoOf(previous_responses[n], word))

\* _resolve_placeholder without the lookup: the sentinel whatever was found
SubstituteSentinel(payload, field, found) ==
    [payload EXCEPT !.fiql_query =
        replace(@, field \o ".id==PLACEHOLDER", field \o ".id=='NOTFOUND'")]

\* one branch of _resolve_placeholder: field is "caller" or "operator",
\* found the id looked up
Substitute(payload, field, found) ==
    [payload EXCEPT !.fiql_query =
        replace(@, field \o ".id==PLACEHOLDER",
                field \o ".id=='" \o (IF found # <<>> THEN found[1] ELSE "NOTFOUND") \o "'")]

HasClause(payload, clause) ==
    "fiql_query" \in DOMAIN payload /\ Contains(payload.fiql_query, clause)

_resolve_placeholder(tool_call, previous_responses) ==
    IF HasClause(tool_call.payload, "caller.id==PLACEHOLDER")
    THEN ToolCall(tool_call.name,
                  Substitute(tool_call.payload, "caller",
                             FoundId(previous_responses, "person", 1)))
    ELSE IF HasClause(tool_call.payload, "operator.id==PLACEHOLDER")
    THEN ToolCall(tool_call.name,
                  Substitute(tool_call.payload, "operator",
                             FoundId(previous_responses, "operator", 1)))
    ELSE ToolCall(tool_call.name, tool_call.payload)

\* the tool call as _execute_plan hands it to call_tool (lines 135-136)
Resolved(tool_call, previous_responses) ==
    IF Contains(PayloadStr(tool_call.payload), "PLACEHOLDER")
    THEN _resolve_placeholder(tool_call, previous_responses)
    ELSE tool_call

\* type(x).__name__ of a decoded JSON value
TypeName(x) ==
    CASE x.j = "list" -> "list" [] x.j = "str" -> "str" [] x.j = "int" -> "int"
      [] x.j = "null" -> "NoneType" [] OTHER -> "dict"

\* not response.get("error"); only a dict has get, on anything else the
\* call raises AttributeError with this text
HasGet(response) == response.j = "dict"
NoGetText(response) == "'" \o TypeName(response) \o "' object has no attribute 'get'"
NoError(response) == ~Truthy(safe_get(response, "error", JNull))

NoResults ==
    [raised |-> FALSE, error |-> "", incidents |-> <<>>, person |-> JNull, operator |-> JNull]

\* _normalize_results from entry n on, acc holding what the entries before
\* gave; raised, with str(e) in error, when response.get raises.  extra_info holds
\* "person" (resp. "operator") exactly when acc.person is not JNull.
RECURSIVE NormalizeFrom(_, _, _)
\* extra_info[field] = info, if info
WithInfo(acc, field, info) == IF Truthy(info) THEN [acc EXCEPT ![field] = info] ELSE acc
\* the incidents of one response (lines 236-244)
IncidentsOf(key, response) ==
    IF Contains(key, "complete_incident_overview")
    THEN (IF HasKey(response, "id") THEN normalize_incidents_response(JList(<<response>>))
          ELSE <<>>)
    ELSE normalize_incidents_response(response)
Raising(acc, response) == [acc EXCEPT !.raised = TRUE, !.error = NoGetText(response)]
NormalizeEntry(raw, n, acc, key, response) ==
    IF Contains(key, "person") /\ ~HasGet(response) THEN Raising(acc, response)
    ELSE IF Contains(key, "person") /\ NoError(response)
    THEN NormalizeFrom(raw, n + 1, WithInfo(acc, "person", normalize_person_response(response)))
    ELSE IF Contains(key, "operator") /\ ~HasGet(response) THEN Raising(acc, response)
    ELSE IF Contains(key, "operator") /\ NoError(response)
    THEN NormalizeFrom(raw, n + 1,
                       WithInfo(acc, "operator", normalize_operator_response(response)))
    ELSE IF AnyIn(key, {"incidents", "search", "complete"}) /\ ~HasGet(response)
    THEN Raising(acc, response)
    ELSE IF AnyIn(key, {"incidents", "search", "complete"}) /\ NoError(response)
    THEN NormalizeFrom(raw, n + 1, [acc EXCEPT !.incidents = @ \o IncidentsOf(key, response)])
    ELSE NormalizeFrom(raw, n + 1, acc)
NormalizeFrom(raw, n, acc) ==
    IF n > Len(raw) THEN acc ELSE NormalizeEntry(raw, n, acc, raw[n].key, raw[n].response)

_normalize_results(raw_responses) == NormalizeFrom(raw_responses, 1, NoResults)

\* the summaries do not raise on the records the normalisers build, so the
\* fallback of lines 272-282 is not taken
_generate_summary(incidents, extra_info, original_query) ==
    IF extra_info.person.j # "null"
    THEN summarize_person_lookup(extra_info.person, incidents, original_query)
    ELSE IF extra_info.operator.j # "null"
    THEN summarize_operator_lookup(extra_info.operator, incidents, original_query)
    ELSE summarize_incidents(incidents, original_query)

\* a map that keeps the last entry only
PutAlone(raw, key, response) == <<[key |-> key, response |-> response]>>

\* raw_responses[key] = response
Put(raw, key, response) ==
    IF \E n \in 1..Len(raw) : raw[n].key = key
    THEN [n \in 1..Len(raw) |-> IF raw[n].key = key THEN [raw[n] EXCEPT !.response = response]
                                ELSE raw[n]]
    ELSE Append(raw, [key |-> key, response |-> response])

\* sanitize_for_logging(raw_responses): the dict of the steps is the first level
SanitizeRaw(raw) ==
    LET kept == SelectSeq(raw, LAMBDA entry : ~AnyIn(lower(entry.key), pii_fields))
    IN  [n \in 1..Len(kept) |->
           [kept[n] EXCEPT !.response = sanitize_for_logging(kept[n].response, 2)]]

\* execution_time is left out: it is a difference of wall-clock readings
QueryResponse(plan_, tool_calls, raw, results, summary, warnings_) ==
    [plan |-> plan_, tool_calls |-> tool_calls, raw |-> raw, results |-> results,
     summary |-> summary, warnings |-> warnings_]

\* a clarification answered as an empty result
ClarifyAsEmpty(plan_) ==
    QueryResponse(plan_, <<>>, <<>>, <<>>, "No incidents found matching your query.", <<>>)

\* the early return of process_query for a plan that asks for clarification
ClarifyResponse(plan_) == QueryResponse(plan_, <<>>, <<>>, <<>>, plan_.clarify, <<>>)

\* the except branch of process_query (lines 95-115)
ErrorResponse(error, query) ==
    QueryResponse(QueryPlan("Error", <<>>, <<>>, NONE, <<>>), <<>>,
                  <<[key |-> "error", response |-> JStr(error)]>>, <<>>,
                  generate_error_summary(error, query), <<"Error: " \o error>>)

\* a response whose plan shows its tool calls as they were made
RespondedAsExecuted(req, plan_, raw, executed, norm) ==
    IF norm.raised THEN ErrorResponse(norm.error, req.query)
    ELSE QueryResponse([plan_ EXCEPT !.tool_calls =
                           [n \in 1..Len(plan_.tool_calls) |->
                               IF n <= Len(executed) THEN executed[n]
                               ELSE plan_.tool_calls[n]]],
                       executed, SanitizeRaw(raw), norm.incidents,
                       _generate_summary(norm.incidents, norm, req.query),
                       plan_.warnings)

\* process_query from the call of _normalize_results on (lines 65-115),
\* norm being what that call gives
Responded(req, plan_, raw, executed, norm) ==
    IF norm.raised THEN ErrorResponse(norm.error, req.query)
    ELSE QueryResponse(plan_, executed, SanitizeRaw(raw), norm.incidents,
                       _generate_summary(norm.incidents, norm, req.query),
                       plan_.warnings)
Respond(req, plan_, raw, executed) ==
    Responded(req, plan_, raw, executed, _normalize_results(raw))

(***************************************************************************)
(* What the MCP server can answer to a tool call, as                       *)
(* TopdeskMCPClient.call_tool returns it, and the errors call_tool raises. *)
(***************************************************************************)
PersonFound ==
    JDict([persons |-> JList(<<JDict([id |-> JStr("person-123"), firstName |-> JStr("John"),
                                      surname |-> JStr("Doe")])>>)])
PersonWithoutId == JDict([firstName |-> JStr("Ann"), surname |-> JStr("Lee")])
NoPersons == JDict([persons |-> JList(<<>>)])
PersonNamedMarker ==
    JDict([persons |-> JList(<<JDict([id |-> JStr("PLACEHOLDER"), firstName |-> JStr("Eve"),
                                      surname |-> JStr("Moss")])>>)])
PersonNullName == JDict([id |-> JStr("person-5"), firstName |-> JNull])
OperatorFound ==
    JDict([operators |-> JList(<<JDict([id |-> JStr("op-1"), name |-> JStr("Jane Smith")])>>)])
OperatorNumbered == JDict([id |-> JInt(42), name |-> JStr("Bob")])

OpenIncident ==
    JDict([id |-> JStr("inc-1"), number |-> JStr("I-240101-001"),
           briefDescription |-> JStr("Email not working"),
           status |-> JDict([name |-> JStr("Open")]),
           priority |-> JDict([name |-> JStr("High")]),
           caller |-> JDict([firstName |-> JStr("John"), surname |-> JStr("Doe")]),
           operator |-> JDict([name |-> JStr("Jane Smith")])])
ClosedIncident ==
    JDict([id |-> JStr("inc-2"), number |-> JStr("I-240101-002"),
           briefDescription |-> JStr("Printer jam"),
           status |-> JStr("Closed"),
           caller |-> JDict([firstName |-> JStr("John"), surname |-> JStr("Doe")])])
NoIncidents == JDict([incidents |-> JList(<<>>)])
TwoIncidents == JDict([incidents |-> JList(<<OpenIncident, ClosedIncident>>)])
IncidentList == JList(<<OpenIncident>>)
\* an answer of status 200 whose body reports an error
ErrorBody == JDict([error |-> JStr("Invalid FIQL query")])

Responses ==
    {PersonFound, PersonWithoutId, NoPersons, PersonNamedMarker, PersonNullName,
     OperatorFound, OperatorNumbered, NoIncidents, TwoIncidents, IncidentList, ErrorBody}

ErrorMessages ==
    {"MCP server timeout", "MCP circuit breaker is open", "Rate limited by MCP server"}

(***************************************************************************)
(* The tool client: the circuit breaker all clients of the process share,  *)
(* and call_tool with its allow-list and its retries.                      *)
(***************************************************************************)
FAILURE_THRESHOLD == 5
RECOVERY_TIMEOUT == 60
MCP_RETRIES == 2
MCP_TIMEOUT == 8

allowed_tools ==
    {"search", "topdesk_get_incidents_by_fiql_query", "topdesk_get_person_by_query",
     "topdesk_get_operators_by_fiql_query", "topdesk_get_complete_incident_overview"}

\* CircuitBreakerState(); the times of the last failure and of the last
\* success are kept for get_state only and are left out
CircuitBreakerState == [state |-> "closed", failure_count |-> 0, next_attempt_time |-> 0]

\* CircuitBreaker.is_request_allowed at time t: the answer and the state after
is_request_allowed(b, t) ==
    IF b.state = "closed" THEN [allowed |-> TRUE, after |-> b]
    ELSE IF b.state = "open"
    THEN IF t >= b.next_attempt_time
         THEN [allowed |-> TRUE, after |-> [b EXCEPT !.state = "half_open"]]
         ELSE [allowed |-> FALSE, after |-> b]
    ELSE [allowed |-> TRUE, after |-> b]

\* a breaker that any success closes
RecordSuccessClosing(b) == [b EXCEPT !.failure_count = 0, !.state = "closed"]

record_success(b) ==
    [b EXCEPT !.failure_count = 0,
              !.state = IF b.state = "half_open" THEN "closed" ELSE b.state]

\* a breaker that opens at the first failure
RecordFailureOpening(b, t) ==
    [state |-> "open", failure_count |-> b.failure_count + 1,
     next_attempt_time |-> t + RECOVERY_TIMEOUT]

record_failure(b, t) ==
    IF b.failure_count + 1 >= FAILURE_THRESHOLD
    THEN [state |-> "open", failure_count |-> b.failure_count + 1,
          next_attempt_time |-> t + RECOVERY_TIMEOUT]
    ELSE [b EXCEPT !.failure_count = b.failure_count + 1]

(***************************************************************************)
(* The rate limiter of src/app/security.py.  tokens is a float in the      *)
(* code; the model holds it exactly, in units of 1/RATE_LIMIT_WINDOW of a  *)
(* token, of which RATE_LIMIT_REQUESTS are refilled in a second.           *)
(***************************************************************************)
RATE_LIMIT_REQUESTS == 60
RATE_LIMIT_WINDOW == 300

\* the bucket is_allowed creates for a new key at time t
TokenBucket(t) ==
    [capacity |-> RATE_LIMIT_REQUESTS * RATE_LIMIT_WINDOW,
     tokens |-> RATE_LIMIT_REQUESTS * RATE_LIMIT_WINDOW,
     last_refill |-> t]

\* the refill both consume and get_remaining begin with
Refilled(bucket, t) ==
    [bucket EXCEPT !.tokens = IF @ + (t - bucket.last_refill) * RATE_LIMIT_REQUESTS
                                   < bucket.capacity
                              THEN @ + (t - bucket.last_refill) * RATE_LIMIT_REQUESTS
                              ELSE bucket.capacity,
                   !.last_refill = t]

\* TokenBucket.consume(n) at time t: the answer and the bucket after
consume(bucket, n, t) ==
    IF Refilled(bucket, t).tokens >= n * RATE_LIMIT_WINDOW
    THEN [ok |-> TRUE,
          after |-> [Refilled(bucket, t) EXCEPT !.tokens = @ - n * RATE_LIMIT_WINDOW]]
    ELSE [ok |-> FALSE, after |-> Refilled(bucket, t)]

\* RateLimiter.is_allowed(key) at time t on the buckets bs
BucketOf(bs, key, t) == IF key \in DOMAIN bs THEN bs[key] ELSE TokenBucket(t)
WithBucket(bs, key, bucket) ==
    [k \in DOMAIN bs \cup {key} |-> IF k = key THEN bucket ELSE bs[k]]
is_allowed(bs, key, t) ==
    [ok |-> consume(BucketOf(bs, key, t), 1, t).ok,
     after |-> WithBucket(bs, key, consume(BucketOf(bs, key, t), 1, t).after)]

\* the client keys of the model
Keys == {"10.0.0.1", "10.0.0.2"}
MaxWaits == 1

\* the messages of the exceptions call_tool raises
NotAllowed(tool_name) == "Tool '" \o tool_name \o "' is not allowed"
CircuitOpen == "MCP circuit breaker is open"
\* the bodies an answer carries: a JSON object without "error", or text
\* that is not JSON
Bodies == {"{}", "<html>"}
IsJson(body) == body = "{}"
\* what response.json() raises on a body that is not JSON
JSONDecodeError == "Expecting value: line 1 column 1 (char 0)"
\* error_msg, with the detail of a body that decodes
ErrorDetail(body) == IF IsJson(body) THEN ": Unknown error" ELSE ""
StatusError(status_code, tool_name, body) ==
    IF status_code = 404 THEN "Tool '" \o tool_name \o "' not found on MCP server"
    ELSE IF status_code = 429 THEN "Rate limited by MCP server"
    ELSE IF 500 <= status_code /\ status_code < 600
    THEN "MCP server error " \o str(status_code) \o ErrorDetail(body)
    ELSE "MCP client error " \o str(status_code) \o ErrorDetail(body)
TransportError(kind) ==
    IF kind = "timeout" THEN "MCP request timed out after " \o str(MCP_TIMEOUT) \o "s"
    ELSE "MCP request failed: " \o kind

\* task 1 is the request's _execute_plan; task 2 is the rest of the
\* process: the calls of other requests and the probe of health_check
TaskIds == {1, 2}
MaxOtherCalls == 2
MaxTicks == 2
OtherNames == {"search", "list_registered_tools"}
StatusCodes == {200, 400, 404, 429, 500}
\* the answers of the server: each status, 200 and 500 with either body
ServerAnswers ==
    {answer \in [status_code : StatusCodes, body : Bodies] :
        answer.status_code \in {200, 500} \/ answer.body = "<html>"}
TransportFailures == {"timeout", "connection refused"}

\* a coroutine of call_tool: where it is, and what it has done so far
IdleTask ==
    [pc |-> "idle", name |-> "", attempt |-> 0, last_exception |-> NONE,
     done |-> 0, outcome |-> "", failures |-> 0, rejected |-> 0, failed |-> "",
     status |-> 0]

(***************************************************************************)
(* The requests.  QueryRequest strips the query and keeps max_results in   *)
(* 1..25; the model draws max_results from 1..MaxMaxResults.               *)
(***************************************************************************)
MaxMaxResults == 2

Queries ==
    {"show complete details for incident I-240101-001",
     "show complete details for incident INVALID",
     "details for I-240101-001 for John Doe",
     "tickets for Sander",
     "tickets for John Doe",
     "open tickets for John Doe",
     "incidents assigned to Jane Smith",
     "technician bob",
     "show me recent changes",
     "email problem",
     "high priority incidents last week",
     "high priority open incidents from last month",
     "what to do about stuff",
     "stuff past 0 days total",
     "stuff for operator  9 now",
     "Sander's tickets",
     "high priority incidents past 0 days"}

\* datetime.utcnow() at the time of planning: 2024-03-01 12:00:05 and
\* 2023-12-31 23:59:59, as days since 1970-01-01 and seconds of the day
Clocks == {[day |-> 19783, sec |-> 43205], [day |-> 19722, sec |-> 86399]}

(***************************************************************************)
(* process_query as a state machine.  One request is processed; the        *)
(* handler runs from one await of call_tool to the next in one step.       *)
(***************************************************************************)
VARIABLES
    request,         \* the QueryRequest
    now,             \* the clock the planner reads
    pc,              \* "received", "executing" or "returned"
    plan,            \* the plan plan_query returned
    ex,              \* the extractor results plan_query held
    i,               \* the loop index of _execute_plan
    raw_responses,   \* _execute_plan's raw_responses
    executed_tools,  \* _execute_plan's executed_tools
    calls,           \* what call_tool was called with, in order, and whether it raised
    session,         \* the TopdeskMCPClient context: "none", "open" or "closed"
    response,        \* the QueryResponse returned
    breaker,         \* security_manager.circuit_breaker._state
    clock,           \* time.time(), in seconds
    tasks,           \* the call_tool coroutines of the process
    quoting,         \* a call of quote_value: its argument and its result
    buckets,         \* security_manager.rate_limiter._buckets
    admitted         \* the requests check_rate_limit has let through, by key

vars == <<request, now, pc, plan, ex, i, raw_responses, executed_tools, calls, session,
          response, breaker, clock, tasks, quoting, buckets, admitted>>
routervars == <<request, now, pc, plan, ex, i, raw_responses, executed_tools, calls, session,
                response>>
clientvars == <<breaker, clock, tasks>>
sidevars == <<quoting, buckets, admitted>>

NoPlan == QueryPlan("", <<>>, <<>>, NONE, <<>>)
NoResponse == [pending |-> TRUE]

NoQuoting == [value |-> "", quoted |-> NONE]
NoBuckets == [key \in {} |-> TokenBucket(0)]

\* nothing has run yet
Started ==
    /\ pc = "received"
    /\ plan = NoPlan
    /\ ex = Extract("")
    /\ i = 0
    /\ raw_responses = <<>>
    /\ executed_tools = <<>>
    /\ calls = <<>>
    /\ session = "none"
    /\ response = NoResponse
    /\ breaker = CircuitBreakerState
    /\ clock = 0
    /\ tasks = [t \in TaskIds |-> IdleTask]
    /\ buckets = NoBuckets
    /\ admitted = [key \in Keys |-> 0]

Init ==
    /\ request \in [query : Queries, max_results : 1..MaxMaxResults]
    /\ now \in Clocks
    /\ quoting = NoQuoting
    /\ Started

\* process_query up to its first await: plan, and return at once for a
\* clarification (lines 43-63, 129-130)
ProcessQuery ==
    /\ pc = "received"
    /\ ex' = Extract(NormalizeQuery(request.query))
    /\ plan' = PlanFrom(NormalizeQuery(request.query), ex', request.max_results, now)
    /\ IF TruthyStr(plan'.clarify)
       THEN /\ response' = ClarifyResponse(plan')
            /\ pc' = "returned"
            /\ session' = session
       ELSE IF plan'.tool_calls = <<>>
       THEN /\ response' = Respond(request, plan', <<>>, <<>>)
            /\ pc' = "returned"
            /\ session' = "closed"
       ELSE /\ response' = response
            /\ pc' = "executing"
            /\ session' = "open"
    /\ UNCHANGED <<request, now, i, raw_responses, executed_tools, calls>>
    /\ UNCHANGED <<clientvars, sidevars>>

\* a turn of the loop that lists the tool call before it is made
StepListingFirst(tool_call, raised, recorded) ==
    /\ calls' = Append(calls, [name |-> tool_call.name, payload |-> tool_call.payload,
                               raised |-> raised])
    /\ raw_responses' = Put(raw_responses, StepKey(i, tool_call.name), recorded)
    /\ executed_tools' = Append(executed_tools, tool_call)
    /\ i' = i + 1
    /\ IF i + 1 = Len(plan.tool_calls)
       THEN /\ session' = "closed"
            /\ response' = Respond(request, plan, raw_responses', executed_tools')
            /\ pc' = "returned"
       ELSE UNCHANGED <<session, response, pc>>
    /\ UNCHANGED <<request, now, plan, ex>>

\* a turn of the loop that leaves the session open when the last call raised
StepKeepingSession(tool_call, raised, recorded) ==
    /\ calls' = Append(calls, [name |-> tool_call.name, payload |-> tool_call.payload,
                               raised |-> raised])
    /\ raw_responses' = Put(raw_responses, StepKey(i, tool_call.name), recorded)
    /\ executed_tools' = IF raised THEN executed_tools ELSE Append(executed_tools, tool_call)
    /\ i' = i + 1
    /\ IF i + 1 = Len(plan.tool_calls)
       THEN /\ session' = IF raised THEN session ELSE "closed"
            /\ response' = Respond(request, plan, raw_responses', executed_tools')
            /\ pc' = "returned"
       ELSE UNCHANGED <<session, response, pc>>
    /\ UNCHANGED <<request, now, plan, ex>>

\* one turn of the loop of _execute_plan with its outcome known, and, after
\* the last turn, the rest of process_query
Step(tool_call, raised, recorded) ==
    /\ calls' = Append(calls, [name |-> tool_call.name, payload |-> tool_call.payload,
                               raised |-> raised])
    /\ raw_responses' = Put(raw_responses, StepKey(i, tool_call.name), recorded)
    /\ executed_tools' = IF raised THEN executed_tools ELSE Append(executed_tools, tool_call)
    /\ i' = i + 1
    /\ IF i + 1 = Len(plan.tool_calls)
       THEN /\ session' = "closed"
            /\ response' = Respond(request, plan, raw_responses', executed_tools')
            /\ pc' = "returned"
       ELSE UNCHANGED <<session, response, pc>>
    /\ UNCHANGED <<request, now, plan, ex>>

\* call_tool returns the server's answer (lines 135-142)
CallToolReturns ==
    /\ pc = "executing"
    /\ \E answer \in Responses :
          Step(Resolved(plan.tool_calls[i + 1], raw_responses), FALSE, answer)
    /\ UNCHANGED <<clientvars, sidevars>>

\* call_tool raises (lines 144-147)
CallToolRaises ==
    /\ pc = "executing"
    /\ \E error \in ErrorMessages :
          Step(Resolved(plan.tool_calls[i + 1], raw_responses), TRUE,
               JDict([error |-> JStr(error)]))
    /\ UNCHANGED <<clientvars, sidevars>>

Next == ProcessQuery \/ CallToolReturns \/ CallToolRaises

Spec == Init /\ [][Next]_vars

(***************************************************************************)
(* call_tool as a state machine.  A coroutine runs from one await of the   *)
(* POST or of the sleep to the next in one step; the checks and the        *)
(* records of the circuit breaker are made under its lock.                 *)
(***************************************************************************)
\* call_tool has returned or raised: its locals are gone, and `name' keeps
\* what it was called with
Finished(task, outcome) ==
    [task EXCEPT !.pc = "idle", !.attempt = 0,
                 !.last_exception = NONE, !.done = @ + 1, !.outcome = outcome]
\* call_tool is entered: nothing of the call has failed yet
Entered(task, tool_name) ==
    [task EXCEPT !.name = tool_name, !.outcome = "", !.failed = "", !.status = 0]
\* the POST of an attempt is on its way
Posting(task, attempt) == [task EXCEPT !.pc = "posting", !.attempt = attempt]

\* the requests beside which the rest of the process is active and time
\* passes: a plan of each number of tool calls
BusyQueries ==
    {"tickets for John Doe", "email problem",
     "show complete details for incident I-240101-001"}
Busy == pc # "received" /\ request.query \in BusyQueries

\* the tool health_check calls, and what it returns for the outcome of the call
HealthProbe == "list_registered_tools"
health_check(outcome) ==
    IF outcome = "ok"
    THEN [status |-> "healthy", mcp_server |-> "connected", error |-> NONE]
    ELSE IF outcome = CircuitOpen
    THEN [status |-> "unhealthy", mcp_server |-> "circuit_breaker_open",
          error |-> "Circuit breaker is open"]
    ELSE [status |-> "unhealthy", mcp_server |-> NONE, error |-> outcome]

\* the names call_tool may be called with next by a task
NextNames(t) ==
    IF t = 1
    THEN IF pc = "executing" /\ tasks[1].done < Len(plan.tool_calls)
         THEN {plan.tool_calls[tasks[1].done + 1].name}
         ELSE {}
    ELSE IF Busy /\ tasks[t].done < MaxOtherCalls THEN OtherNames ELSE {}

\* call_tool that asks the circuit breaker before it looks at the name
CallToolBreakerFirst(t, tool_name) ==
    /\ tasks[t].pc = "idle"
    /\ breaker' = is_request_allowed(breaker, clock).after
    /\ tasks' = [tasks EXCEPT ![t] =
                    IF tool_name \notin allowed_tools
                    THEN Finished(Entered(@, tool_name), NotAllowed(tool_name))
                    ELSE IF is_request_allowed(breaker, clock).allowed
                    THEN Posting(Entered(@, tool_name), 0)
                    ELSE Finished([Entered(@, tool_name) EXCEPT !.rejected = @ + 1],
                                  CircuitOpen)]
    /\ UNCHANGED clock
    /\ UNCHANGED <<routervars, sidevars>>

\* call_tool and _call_tool_mcp up to the first POST
CallTool(t, tool_name) ==
    /\ tasks[t].pc = "idle"
    /\ IF tool_name \notin allowed_tools
       THEN /\ tasks' = [tasks EXCEPT ![t] =
                            Finished(Entered(@, tool_name), NotAllowed(tool_name))]
            /\ UNCHANGED breaker
       ELSE /\ breaker' = is_request_allowed(breaker, clock).after
            /\ tasks' = [tasks EXCEPT ![t] =
                            IF is_request_allowed(breaker, clock).allowed
                            THEN Posting(Entered(@, tool_name), 0)
                            ELSE Finished([Entered(@, tool_name) EXCEPT !.rejected = @ + 1],
                                          CircuitOpen)]
    /\ UNCHANGED clock
    /\ UNCHANGED <<routervars, sidevars>>

\* the POST has come back with a response: the attempt has not failed
Responding(task, status_code) == [task EXCEPT !.failed = "", !.status = status_code]

\* the server answers the POST with a status and a body
Answer(t, status_code, body) ==
    /\ tasks[t].pc = "posting"
    /\ IF status_code = 200
       THEN /\ breaker' = record_success(breaker)
            /\ tasks' = [tasks EXCEPT ![t] =
                            Finished(Responding(@, status_code),
                                     IF IsJson(body) THEN "ok" ELSE JSONDecodeError)]
       ELSE IF 500 <= status_code /\ status_code < 600
       THEN /\ breaker' = record_failure(breaker, clock)
            /\ tasks' = [tasks EXCEPT ![t] =
                            Finished([Responding(@, status_code) EXCEPT !.failures = @ + 1],
                                     StatusError(status_code, tasks[t].name, body))]
       ELSE /\ breaker' = breaker
            /\ tasks' = [tasks EXCEPT ![t] =
                            Finished(Responding(@, status_code),
                                     StatusError(status_code, tasks[t].name, body))]
    /\ UNCHANGED clock
    /\ UNCHANGED <<routervars, sidevars>>

\* a handler that keeps the exception of the first failed attempt
CaughtFirst(task, kind) ==
    [task EXCEPT !.last_exception = IF @ = NONE THEN TransportError(kind) ELSE @,
                 !.failures = @ + 1, !.failed = kind]

\* the handler of a timeout or a transport failure: last_exception is set
\* and the failure is counted; `failed' remembers what the attempt failed with
Caught(task, kind) ==
    [task EXCEPT !.last_exception = TransportError(kind), !.failures = @ + 1,
                 !.failed = kind]
\* the end of an iteration of the retry loop: sleep before the next
\* attempt, or raise last_exception once the attempts are exhausted
LoopEnd(task) ==
    IF task.attempt < MCP_RETRIES
    THEN [task EXCEPT !.pc = "sleeping"]
    ELSE Finished(task, IF task.last_exception # NONE THEN task.last_exception
                        ELSE "Failed to call tool " \o task.name \o " after "
                             \o str(MCP_RETRIES + 1) \o " attempts")

\* the POST times out or fails in transport
Fail(t, kind) ==
    /\ tasks[t].pc = "posting"
    /\ breaker' = record_failure(breaker, clock)
    /\ tasks' = [tasks EXCEPT ![t] = LoopEnd(Caught(@, kind))]
    /\ UNCHANGED clock
    /\ UNCHANGED <<routervars, sidevars>>

\* the sleep is over: the next attempt is posted
Retry(t) ==
    /\ tasks[t].pc = "sleeping"
    /\ tasks' = [tasks EXCEPT ![t] = Posting(@, tasks[t].attempt + 1)]
    /\ UNCHANGED <<breaker, clock>>
    /\ UNCHANGED <<routervars, sidevars>>

\* half a recovery timeout passes
Tick ==
    /\ Busy
    /\ clock < MaxTicks * (RECOVERY_TIMEOUT \div 2)
    /\ clock' = clock + RECOVERY_TIMEOUT \div 2
    /\ UNCHANGED <<breaker, tasks>>
    /\ UNCHANGED <<routervars, sidevars>>

Calls == \E t \in TaskIds : \E tool_name \in NextNames(t) : CallTool(t, tool_name)
Answers ==
    \E t \in TaskIds : \E answer \in ServerAnswers :
        Answer(t, answer.status_code, answer.body)
Fails == \E t \in TaskIds : \E kind \in TransportFailures : Fail(t, kind)
Retries == \E t \in TaskIds : Retry(t)

\* the client is studied with one page size and one clock
ClientInit ==
    /\ Init
    /\ request.max_results = 1
    /\ now.day = 19783

ClientNext == ProcessQuery \/ Calls \/ Answers \/ Fails \/ Retries \/ Tick

ClientSpec == ClientInit /\ [][ClientNext]_vars

(***************************************************************************)
(* quote_value, applied to the strings of up to MaxQuoteLen characters     *)
(* over a letter, the single quote and the backslash.                      *)
(***************************************************************************)
MaxQuoteLen == 4
QuoteAlphabet == {"a", "'", "\\"}
RECURSIVE StringsUpTo(_)
StringsUpTo(n) ==
    IF n = 0 THEN {""}
    ELSE StringsUpTo(n - 1) \cup {s \o c : s \in StringsUpTo(n - 1), c \in QuoteAlphabet}

\* the request beside which quote_value and the rate limiter are studied
OneRequest ==
    /\ request = [query |-> "email problem", max_results |-> 1]
    /\ now = [day |-> 19783, sec |-> 43205]

QuoteInit ==
    /\ OneRequest
    /\ quoting \in [value : StringsUpTo(MaxQuoteLen), quoted : {NONE}]
    /\ Started

Quote ==
    /\ quoting.quoted = NONE
    /\ quoting' = [quoting EXCEPT !.quoted = quote_value(quoting.value)]
    /\ UNCHANGED <<routervars, clientvars, buckets, admitted>>

QuoteSpec == QuoteInit /\ [][Quote]_vars

(***************************************************************************)
(* check_rate_limit as a state machine: requests of the client keys, and   *)
(* waits of the time one token takes to refill.                            *)
(***************************************************************************)
\* check_rate_limit for a request of a client key (main.py 58-74); when the
\* request is refused get_rate_limit_remaining refills the bucket again, at
\* the same time
CheckRateLimit(key) ==
    /\ buckets' = is_allowed(buckets, key, clock).after
    /\ admitted' = [admitted EXCEPT ![key] =
                       IF is_allowed(buckets, key, clock).ok THEN @ + 1 ELSE @]
    /\ UNCHANGED <<routervars, breaker, clock, tasks, quoting>>

CheckRateLimits == \E key \in Keys : CheckRateLimit(key)

Wait ==
    /\ clock < MaxWaits * (RATE_LIMIT_WINDOW \div RATE_LIMIT_REQUESTS)
    /\ clock' = clock + RATE_LIMIT_WINDOW \div RATE_LIMIT_REQUESTS
    /\ UNCHANGED <<routervars, breaker, tasks, sidevars>>

RateInit == OneRequest /\ quoting = NoQuoting /\ Started

RateSpec == RateInit /\ [][CheckRateLimits \/ Wait]_vars

(***************************************************************************)
(* Properties.                                                             *)
(***************************************************************************)
\* the request's query as plan_query normalizes it
Normalized == NormalizeQuery(request.query)
Planned == pc # "received"
TwoStep == Planned /\ Len(plan.tool_calls) = 2

\* C1: no payload passed to call_tool contains the marker PLACEHOLDER,
\* whatever the plan and whatever the earlier responses hold.
C1_NoMarkerReachesClient ==
    \A n \in 1..Len(calls) : ~Contains(PayloadStr(calls[n].payload), "PLACEHOLDER")

\* the field of the marker clause of a two-step plan
MarkerField == IF plan.tool_calls[1].name = "topdesk_get_person_by_query" THEN "caller"
               ELSE "operator"
\* what the recorded lookup response normalizes to
LookupInfo == IF MarkerField = "caller"
              THEN normalize_person_response(raw_responses[1].response)
              ELSE normalize_operator_response(raw_responses[1].response)
\* the id the second call must carry: that of the record, if it has one
ExpectedId == IF LookupInfo.j = "dict" /\ Truthy(LookupInfo.v.id) THEN Format(LookupInfo.v.id)
              ELSE "NOTFOUND"
\* the planned filter after its marker clause
RestOfFilter ==
    From(plan.tool_calls[2].payload.fiql_query, Len(MarkerField \o ".id==PLACEHOLDER") + 1)

\* C2: in a two-step plan the second call is sent with its marker clause
\* replaced by <field>.id=='<id>' exactly when the recorded lookup response
\* normalizes to a record with a non-empty id, and by <field>.id=='NOTFOUND'
\* in every other case; the rest of the filter, the page size and the tool
\* are as planned, and the second call is sent whatever the lookup gave.
C2_MarkerClauseResolved ==
    /\ (TwoStep /\ Len(calls) = 2) =>
          /\ StartsAt(plan.tool_calls[2].payload.fiql_query,
                      MarkerField \o ".id==PLACEHOLDER", 1)
          /\ calls[2].name = plan.tool_calls[2].name
          /\ calls[2].payload.fiql_query
                = MarkerField \o ".id=='" \o ExpectedId \o "'" \o RestOfFilter
          /\ calls[2].payload.page_size = plan.tool_calls[2].payload.page_size
    /\ (TwoStep /\ pc = "returned") => Len(calls) = 2

\* a lookup that found person-123 and a second call that carries it
C2_Witness ==
    /\ TwoStep /\ Len(calls) = 2
    /\ raw_responses[1].response = PersonFound
    /\ Contains(calls[2].payload.fiql_query, "caller.id=='person-123';creationDate=ge=")

\* the state part of C3
C3_Recorded ==
    /\ Len(calls) = i
    /\ Len(raw_responses) = i
    /\ i <= Len(plan.tool_calls)
    /\ \A n \in 1..Len(calls) :
          /\ calls[n].name = plan.tool_calls[n].name
          /\ raw_responses[n].key = "step_" \o str(n) \o "_" \o plan.tool_calls[n].name
          /\ calls[n].raised =>
                /\ HasKey(raw_responses[n].response, "error")
                /\ raw_responses[n].response.v.error.v \in ErrorMessages
    /\ (pc = "returned" /\ ~TruthyStr(plan.clarify)) =>
          /\ Len(calls) = Len(plan.tool_calls)
          /\ Len(raw_responses) = Len(plan.tool_calls)
\* the step part of C3: what is recorded stays as it is
C3_Kept ==
    \A n \in 1..Len(raw_responses) :
        Len(raw_responses') >= n /\ raw_responses'[n] = raw_responses[n]

\* C3: the n tool calls of a plan are all attempted, in plan order, whatever
\* fails; a call that raises is recorded as an error entry under
\* step_<i>_<tool_name> and the next call is still attempted; after
\* execution the raw-response map has exactly n entries; an entry once
\* recorded is never changed or removed.
C3_EveryCallAttempted == [](C3_Recorded) /\ [][C3_Kept]_vars

\* the lookup raised and the second call was made and answered all the same
C3_Witness ==
    /\ pc = "returned" /\ Len(calls) = 2
    /\ calls[1].raised /\ ~calls[2].raised
    /\ Len(raw_responses) = 2

MentionsFailure(summary) ==
    Contains(lower(summary), "error") \/ Contains(lower(summary), "timeout")

\* C4: when call_tool raised on a tool call, the response reports it: the
\* summary mentions an error or a timeout, and the warnings are not empty.
C4_FailureReported ==
    (pc = "returned" /\ \E n \in 1..Len(calls) : calls[n].raised) =>
        /\ MentionsFailure(response.summary)
        /\ response.warnings # <<>>

\* C5: for a plan with clarify set no tool call is made (and no session
\* opened), and the response has the clarification text as its summary,
\* no results and no executed tool calls.
C5_ClarifyReturnsAtOnce ==
    (pc = "returned" /\ TruthyStr(plan.clarify)) =>
        /\ calls = <<>>
        /\ session = "none"
        /\ response.summary = plan.clarify
        /\ response.results = <<>>
        /\ response.tool_calls = <<>>

C5_Witness ==
    /\ pc = "returned"
    /\ request.query = "what to do about stuff"
    /\ plan.intent = "Clarification needed"
    /\ response.summary = plan.clarify

\* C6: a plan with clarify set has no steps and no tool calls.
C6_ClarifyExcludesCalls ==
    (Planned /\ plan.clarify # NONE) => (plan.steps = <<>> /\ plan.tool_calls = <<>>)

\* both clarifications are planned: the generic one and the format one
C6_Witness ==
    /\ Planned
    /\ plan.clarify # NONE
    /\ plan.intent \in {"Clarification needed", "Invalid incident ID"}
    /\ plan.tool_calls = <<>>

\* the kind of a plan, read off the plan itself
PlanKind ==
    IF plan.intent = "Invalid incident ID"
       \/ (plan.tool_calls # <<>>
           /\ plan.tool_calls[1].name = "topdesk_get_complete_incident_overview")
    THEN "complete"
    ELSE IF plan.intent = "Clarification needed" THEN "clarification"
    ELSE IF plan.tool_calls[1].name = "topdesk_get_person_by_query" THEN "person"
    ELSE IF plan.tool_calls[1].name = "topdesk_get_operators_by_fiql_query" THEN "operator"
    ELSE IF plan.tool_calls[1].name = "search" THEN "search"
    ELSE IF StartsAt(plan.tool_calls[1].payload.fiql_query, "category.name==", 1)
    THEN "category"
    ELSE "filter"

Kinds == <<"complete", "person", "operator", "category", "search", "filter", "clarification">>

\* the conditions (a)..(g) in order, an extractor result counting as found
\* when it is not None
ConditionsFound ==
    << ex.incident_id # NONE /\ AnyIn(Normalized, OverviewWords),
       ex.person_match # NONE,
       ex.operator_match # NONE,
       ex.category_filter # NONE,
       _is_search_query(Normalized),
       \/ ex.status_filter # NONE \/ ex.priority_filter # <<>> \/ ex.time_filter # <<>>
       \/ Len(split(Normalized)) > 5,
       TRUE >>

\* the same, an extractor result counting only when it is a non-empty name
\* or a window of at least one day
ConditionsUsable ==
    << TruthyStr(ex.incident_id) /\ AnyIn(Normalized, OverviewWords),
       TruthyStr(ex.person_match),
       TruthyStr(ex.operator_match),
       TruthyStr(ex.category_filter),
       _is_search_query(Normalized),
       \/ TruthyStr(ex.status_filter) \/ ex.priority_filter # <<>>
       \/ (ex.time_filter # <<>> /\ ex.time_filter[1] > 0)
       \/ Len(split(Normalized)) > 5,
       TRUE >>

FirstHolding(conditions) == Kinds[MinOf({n \in 1..Len(Kinds) : conditions[n]})]

\* C7 as stated: the plan kind is that of the first of (a)..(g) that holds,
\* where a name or a time window holds as soon as the extractor found one.
C7_FirstMatchAsStated == Planned => PlanKind = FirstHolding(ConditionsFound)

\* C7: the plan kind is that of the first of (a)..(g) that holds, where an
\* extracted name holds when it is not empty and an extracted time window
\* when it is not zero; a later condition never overrides an earlier one.
C7_FirstMatchWins == Planned => PlanKind = FirstHolding(ConditionsUsable)

\* a person name and a search-style query at once: the person plan wins
C7_Witness ==
    /\ Planned
    /\ TruthyStr(ex.person_match)
    /\ _is_search_query(Normalized)
    /\ PlanKind = "person"

\* \bI-\d{6}-\d{3}\b in the query as the user wrote it
WrittenId ==
    re_search(Cat(<<WB, Grp(1, IncidentNumberRe), WB>>), request.query, FALSE)

\* C8: a complete-overview request that names a well-formed identifier
\* gets a plan without clarification and with exactly one tool call,
\* topdesk_get_complete_incident_overview, whose incident_id is the
\* identifier as the user wrote it.
C8_OverviewOfWrittenId ==
    (Planned /\ WrittenId.found /\ AnyIn(Normalized, OverviewWords)) =>
        /\ plan.clarify = NONE
        /\ Len(plan.tool_calls) = 1
        /\ plan.tool_calls[1].name = "topdesk_get_complete_incident_overview"
        /\ plan.tool_calls[1].payload.incident_id = WrittenId.groups[1]

\* C9: a complete-overview request for a malformed identifier gets a
\* clarify plan that names the expected format, and no tool call.
C9_MalformedIdClarified ==
    (Planned /\ request.query = "show complete details for incident INVALID") =>
        /\ plan.clarify # NONE
        /\ Contains(plan.clarify, "I-YYMMDD-NNN")
        /\ plan.tool_calls = <<>>

\* C10: "tickets for Sander" gets a clarify plan with no tool call.
C10_SingleNameClarified ==
    (Planned /\ request.query = "tickets for Sander") =>
        /\ plan.clarify # NONE
        /\ plan.tool_calls = <<>>

\* the plan is a two-step plan for a person, resp. an operator
IsPersonPlan == Planned /\ StartsAt(plan.intent, "Find incidents for person: ", 1)
IsOperatorPlan == Planned /\ StartsAt(plan.intent, "Find incidents assigned to operator: ", 1)

\* C11: a two-step plan (person or operator) has exactly 2 tool calls, the
\* lookup first and topdesk_get_incidents_by_fiql_query second; the filter
\* of the second starts with the clause caller.id==PLACEHOLDER (resp.
\* operator.id==PLACEHOLDER) as the first clause of its AND chain, and its
\* page_size is max_results.
C11_TwoStepShape ==
    (IsPersonPlan \/ IsOperatorPlan) =>
        /\ Len(plan.tool_calls) = 2
        /\ plan.tool_calls[1].name = (IF IsPersonPlan THEN "topdesk_get_person_by_query"
                                      ELSE "topdesk_get_operators_by_fiql_query")
        /\ plan.tool_calls[2].name = "topdesk_get_incidents_by_fiql_query"
        /\ StartsAt(plan.tool_calls[2].payload.fiql_query,
                    (IF IsPersonPlan THEN "caller" ELSE "operator") \o ".id==PLACEHOLDER;", 1)
        /\ plan.tool_calls[2].payload.page_size = request.max_results

C11_Witness ==
    /\ IsOperatorPlan
    /\ request.query = "incidents assigned to Jane Smith"
    /\ request.max_results = 2
    /\ plan.tool_calls[2].payload.page_size = 2
    /\ StartsAt(plan.tool_calls[2].payload.fiql_query, "operator.id==PLACEHOLDER;", 1)

\* C12: a person plan carries the single-name warning exactly when the
\* extracted person name has one token, and no warning when it has two or
\* more; an operator plan carries no warning, whatever the operator name.
C12_SingleNameWarning ==
    /\ IsPersonPlan =>
          plan.warnings = (IF Len(split(ex.person_match)) = 1
                           THEN <<"Single name '" \o ex.person_match
                                     \o "' may match multiple people">>
                           ELSE <<>>)
    /\ IsOperatorPlan => plan.warnings = <<>>

\* "Sander's tickets": one token, one warning
C12_Witness ==
    /\ IsPersonPlan
    /\ request.query = "Sander's tickets"
    /\ ex.person_match = "sander"
    /\ Len(plan.warnings) = 1
    /\ StartsAt(plan.warnings[1], "Single name", 1)

\* the number of places where t occurs in s
Occurrences(s, t) == Cardinality({p \in 1..Len(s) : StartsAt(s, t, p)})

IsCategoryPlan ==
    Planned /\ plan.tool_calls # <<>>
    /\ "fiql_query" \in DOMAIN plan.tool_calls[1].payload
    /\ StartsAt(plan.tool_calls[1].payload.fiql_query, "category.name==", 1)

\* every topdesk_get_incidents_by_fiql_query call of the plan has exactly
\* one creationDate=ge= clause, that of the window of `days` days, or of
\* the default when days is 0
DatedBy(days) ==
    \A n \in 1..Len(plan.tool_calls) :
        plan.tool_calls[n].name = "topdesk_get_incidents_by_fiql_query" =>
            /\ Occurrences(plan.tool_calls[n].payload.fiql_query, "creationDate=ge=") = 1
            /\ Contains(plan.tool_calls[n].payload.fiql_query,
                        "creationDate=ge="
                           \o days_ago(now, IF days # 0 THEN days
                                            ELSE IF IsCategoryPlan THEN 60 ELSE 30))

\* C13 as stated: the lower bound is that of the extracted window whenever
\* the extractor gave one (also a window of 0 days), else that of the
\* default: 60 days in a category plan, 30 days in the others.
C13_LowerBoundAsStated ==
    Planned =>
        IF ex.time_filter # <<>>
        THEN \A n \in 1..Len(plan.tool_calls) :
                plan.tool_calls[n].name = "topdesk_get_incidents_by_fiql_query" =>
                    Contains(plan.tool_calls[n].payload.fiql_query,
                             "creationDate=ge=" \o days_ago(now, ex.time_filter[1]))
        ELSE DatedBy(0)

\* C13: every topdesk_get_incidents_by_fiql_query call of a plan has
\* exactly one creationDate=ge= clause, computed from the extracted window
\* when that is at least one day, and from the default (60 days in a
\* category plan, 30 days in the others) when none was extracted or the
\* extracted window is 0 days.
C13_LowerBound ==
    Planned => DatedBy(IF ex.time_filter # <<>> THEN ex.time_filter[1] ELSE 0)

\* "high priority incidents last week": 14 days before 2024-03-01 12:00:05
C13_Witness ==
    /\ Planned
    /\ request.query = "high priority incidents last week"
    /\ ex.time_filter = <<14>>
    /\ now.day = 19783
    /\ Len(plan.tool_calls) = 1
    /\ Contains(plan.tool_calls[1].payload.fiql_query, "creationDate=ge=2024-02-16T12:00:05Z")

\* C14: "high priority open incidents from last month" gets the
\* single-step plan "Find incidents matching filters", whose one
\* topdesk_get_incidents_by_fiql_query filter has a priority clause, a
\* status exclusion and a creation-date lower bound.
C14_FiltersOnly ==
    (Planned /\ request.query = "high priority open incidents from last month") =>
        /\ plan.intent = "Find incidents matching filters"
        /\ Len(plan.tool_calls) = 1
        /\ plan.tool_calls[1].name = "topdesk_get_incidents_by_fiql_query"
        /\ Contains(plan.tool_calls[1].payload.fiql_query, "priority.name")
        /\ Contains(plan.tool_calls[1].payload.fiql_query, "status!=")
        /\ Contains(plan.tool_calls[1].payload.fiql_query, "creationDate=ge=")

\* processing ended without a clarification and without results
EndedEmpty == pc = "returned" /\ ~TruthyStr(plan.clarify) /\ response.results = <<>>
\* the response is that of the except branch of process_query
IsErrorResponse == pc = "returned" /\ response.plan.intent = "Error"
\* the lookup of a two-step plan gave a record that _normalize_results keeps
LookupResolved ==
    /\ TwoStep /\ Len(raw_responses) >= 1
    /\ HasGet(raw_responses[1].response) /\ NoError(raw_responses[1].response)
    /\ LookupInfo.j = "dict"

EscapedText == _normalize_results(raw_responses).error

\* C16: the response to a failure that escaped the per-step isolation has
\* no results and the summary of the failure's class, and none of its
\* fields carries the exception text: the response is the same for two
\* failures of the same class with different texts.
C16_NoExceptionText ==
    IsErrorResponse =>
        /\ response.results = <<>>
        /\ response.summary = generate_error_summary(EscapedText, request.query)
        /\ \A n \in 1..Len(response.warnings) : ~Contains(response.warnings[n], EscapedText)
        /\ \A n \in 1..Len(response.raw) : ~Contains(response.raw[n].response.v, EscapedText)

\* a filter with the timestamp of its creationDate=ge= clause taken out
UndatedText(s) ==
    IF ~Contains(s, "creationDate=ge=") THEN s
    ELSE LET p == MinOf({k \in 1..Len(s) : StartsAt(s, "creationDate=ge=", k)})
         IN  SubSeq(s, 1, p + 15) \o "<utc>" \o From(s, p + 36)
UndatedCall(tool_call) ==
    IF "fiql_query" \in DOMAIN tool_call.payload
    THEN [tool_call EXCEPT !.payload.fiql_query = UndatedText(@)]
    ELSE tool_call
Undated(planned) ==
    [planned EXCEPT !.tool_calls = [n \in 1..Len(planned.tool_calls) |->
                                       UndatedCall(planned.tool_calls[n])]]
\* plan_query has just returned
JustPlanned == Planned /\ calls = <<>>

\* C17 as stated: the plan is that of (query, max_results) whenever the
\* call is made.
C17_PlanWheneverCalled ==
    JustPlanned =>
        \A utcnow \in Clocks : plan = plan_query(request.query, request.max_results, utcnow)

\* C17: plan_query is a function of (query, max_results) and of the UTC
\* time of the call, which enters the timestamp of the creationDate=ge=
\* clauses only: calls at different times give plans that are equal up to
\* that timestamp.
C17_PlanUpToDate ==
    JustPlanned =>
        \A utcnow \in Clocks :
            Undated(plan) = Undated(plan_query(request.query, request.max_results, utcnow))

\* "show me recent changes" planned on 2023-12-31 23:59:59
C17_Witness ==
    /\ JustPlanned
    /\ request.query = "show me recent changes"
    /\ now.day = 19722
    /\ Contains(plan.tool_calls[1].payload.fiql_query, "creationDate=ge=2023-11-01T23:59:59Z")

\* where the session is at each point of process_query
SessionScoped ==
    /\ pc = "received" => session = "none"
    /\ pc = "executing" => session = "open"
    /\ pc = "returned" => session = IF TruthyStr(plan.clarify) THEN "none" ELSE "closed"
\* a session is opened once and closed once, and call_tool is called in it
SessionOnce ==
    /\ session' # session =>
          \/ session = "none" /\ session' \in {"open", "closed"}
          \/ session = "open" /\ session' = "closed"
    /\ calls' # calls => session = "open"

\* C19: a plan that is not a clarification is executed in one session of
\* the tool client: the session is opened once, every call_tool of the plan
\* is made while it is open, and it is closed when execution has ended,
\* also when every call raised; a clarification opens no session.
C19_OneSessionPerExecution == [](SessionScoped) /\ [][SessionOnce]_vars

\* both calls of a two-step plan raised and the session is closed
C19_Witness ==
    /\ pc = "returned"
    /\ Len(calls) = 2
    /\ calls[1].raised /\ calls[2].raised
    /\ session = "closed"

AllowListed ==
    /\ Planned => \A n \in 1..Len(plan.tool_calls) : plan.tool_calls[n].name \in allowed_tools
    /\ \A t \in TaskIds : tasks[t].pc # "idle" => tasks[t].name \in allowed_tools
\* the step in which call_tool refuses a name
Refuses(t) ==
    /\ tasks'[t].done = tasks[t].done + 1
    /\ \E tool_name \in OtherNames : tasks'[t].outcome = NotAllowed(tool_name)
RefusedAtOnce ==
    \A t \in TaskIds : Refuses(t) => tasks[t].pc = "idle" /\ breaker' = breaker

\* C20: every tool name of every plan is one of the five allow-listed
\* names, and call_tool raises "Tool '<name>' is not allowed" for any other
\* name before it sends a request and without consulting or changing the
\* circuit breaker.
C20_AllowList == [](AllowListed) /\ [][RefusedAtOnce]_vars

\* the probe of health_check is refused while the breaker is open and its
\* recovery time has come
C20_Witness ==
    /\ tasks[2].outcome = NotAllowed("list_registered_tools")
    /\ breaker.state = "open"
    /\ clock >= breaker.next_attempt_time

\* the marker clause is in the filter of a tool call
Unresolved(tool_call) ==
    /\ "fiql_query" \in DOMAIN tool_call.payload
    /\ Contains(tool_call.payload.fiql_query, ".id==PLACEHOLDER")
\* the response carries the planner's plan, the marker only in the plan
PlanAsPlanned ==
    /\ response.plan = plan
    /\ TwoStep => Unresolved(response.plan.tool_calls[2])
    /\ \A n \in 1..Len(response.tool_calls) : ~Unresolved(response.tool_calls[n])

\* C21 as stated: after process_query the plan in the response is the plan
\* the planner returned, its marker clause unresolved, and the resolved
\* payload is in the executed tool calls only.
C21_ResponsePlanAsStated == pc = "returned" => PlanAsPlanned

\* the plan of the except branch of process_query
ErrorPlan == QueryPlan("Error", <<>>, <<>>, NONE, <<>>)
PlanInResponse ==
    pc = "returned" => IF IsErrorResponse THEN response.plan = ErrorPlan /\ plan.intent # "Error"
                       ELSE PlanAsPlanned
PlanKept == Planned => plan' = plan

\* C21: executing a plan does not modify it, and the response carries the
\* plan the planner returned, its second tool call still with the marker
\* clause, the resolved payload in the executed tool calls only; the
\* response of the except branch carries the empty plan of intent "Error"
\* in its place.
C21_ResponsePlan == [](PlanInResponse) /\ [][PlanKept]_vars

\* both calls of "tickets for John Doe" were answered
C21_Witness ==
    /\ pc = "returned" /\ ~IsErrorResponse
    /\ request.query = "tickets for John Doe"
    /\ Len(response.tool_calls) = 2
    /\ Unresolved(response.plan.tool_calls[2])
    /\ Contains(response.tool_calls[2].payload.fiql_query, "caller.id=='person-123'")

\* the calls that call_tool answered, as they were sent, in order
RECURSIVE Answered(_)
Answered(n) ==
    IF n = 0 THEN <<>>
    ELSE IF calls[n].raised THEN Answered(n - 1)
    ELSE Append(Answered(n - 1), ToolCall(calls[n].name, calls[n].payload))
\* an entry of the raw map that is an object with the key "error"
IsErrorEntry(entry) == entry.response.j = "dict" /\ "error" \in DOMAIN entry.response.v
ErrorEntries(raw) == Cardinality({n \in 1..Len(raw) : IsErrorEntry(raw[n])})
RaisedCalls == {n \in 1..Len(calls) : calls[n].raised}
\* a plan was executed and process_query has returned
Executed == pc = "returned" /\ ~TruthyStr(plan.clarify)

\* C30 as stated: the executed tool calls of the response are the planned
\* calls that succeeded, in order and resolved; a call that failed is not
\* among them and has an error entry in raw; executed calls and error
\* entries together are as many as the planned calls.
C30_ExecutedAsStated ==
    Executed =>
        /\ response.tool_calls = Answered(Len(calls))
        /\ \A n \in 1..Len(response.tool_calls) : ~Unresolved(response.tool_calls[n])
        /\ \A n \in RaisedCalls : IsErrorEntry(response.raw[n])
        /\ Len(response.tool_calls) + ErrorEntries(response.raw) = Len(plan.tool_calls)

\* C30: unless process_query ended in its except branch, whose response
\* has no executed tool calls and the error text as its only raw entry,
\* the executed tool calls of the response are the planned calls that
\* call_tool answered, in order and resolved; a call that raised is not
\* among them and has an error entry in raw; executed calls and raised
\* calls together are as many as the planned calls, and the error entries
\* of raw are those of the raised calls and of the answers that have an
\* "error" key themselves.
C30_Executed ==
    Executed =>
        IF IsErrorResponse
        THEN /\ response.tool_calls = <<>>
             /\ Len(response.raw) = 1 /\ response.raw[1].key = "error"
        ELSE /\ response.tool_calls = Answered(Len(calls))
             /\ \A n \in 1..Len(response.tool_calls) : ~Unresolved(response.tool_calls[n])
             /\ Len(response.raw) = Len(plan.tool_calls)
             /\ \A n \in 1..Len(response.raw) :
                   IsErrorEntry(response.raw[n])
                      <=> (calls[n].raised \/ HasKey(raw_responses[n].response, "error"))
             /\ Len(response.tool_calls) + Cardinality(RaisedCalls) = Len(plan.tool_calls)

\* the lookup was answered with an error body and the second call raised
C30_Witness ==
    /\ Executed /\ ~IsErrorResponse
    /\ Len(calls) = 2
    /\ raw_responses[1].response = ErrorBody /\ calls[2].raised
    /\ Len(response.tool_calls) = 1
    /\ ErrorEntries(response.raw) = 2

\* a text with every backslash and every single quote behind a backslash
RECURSIVE EscapedEach(_)
EscapedEach(s) ==
    IF s = "" THEN ""
    ELSE (IF At(s, 1) \in {"\\", "'"} THEN "\\" \o At(s, 1) ELSE At(s, 1))
            \o EscapedEach(From(s, 2))
\* unescaping: a backslash stands for the character after it
RECURSIVE Unescaped(_)
Unescaped(s) ==
    IF s = "" THEN ""
    ELSE IF At(s, 1) = "\\" /\ Len(s) >= 2 THEN At(s, 2) \o Unescaped(From(s, 3))
    ELSE At(s, 1) \o Unescaped(From(s, 2))

\* C22: for a non-empty value quote_value gives the value between single
\* quotes with each backslash and each single quote escaped by a backslash,
\* and unescaping the text between the outer quotes gives the value back.
C22_QuoteRoundTrip ==
    (quoting.quoted # NONE /\ quoting.value # "") =>
        /\ quoting.quoted = "'" \o EscapedEach(quoting.value) \o "'"
        /\ Unescaped(SubSeq(quoting.quoted, 2, Len(quoting.quoted) - 1)) = quoting.value

\* a backslash directly before a single quote has been quoted
C22_Witness ==
    /\ quoting.value = "a\\'"
    /\ quoting.quoted = "'a\\\\\\''"

\* C23: for every client key, the requests the rate limiter lets through
\* within a window of RATE_LIMIT_WINDOW seconds (here the window that
\* begins with the first request) are at most RATE_LIMIT_REQUESTS.
C23_AtMostLimitPerWindow ==
    clock < RATE_LIMIT_WINDOW => \A key \in Keys : admitted[key] <= RATE_LIMIT_REQUESTS


(***************************************************************************)
(* The circuit breaker and the retry loop.                                 *)
(***************************************************************************)
\* the breaker is open and its recovery time has not come
Tripped == breaker.state = "open" /\ clock < breaker.next_attempt_time
\* the step in which a coroutine enters call_tool or wakes from its sleep
Proceeds(t) == tasks[t].pc \in {"idle", "sleeping"} /\ tasks'[t] # tasks[t]
\* the step in which a coroutine posts a request
Sends(t) == tasks[t].pc # "posting" /\ tasks'[t].pc = "posting"
\* the step in which a call ends with the circuit-open error
Rejects(t) ==
    /\ tasks'[t].pc = "idle"
    /\ tasks'[t].done = tasks[t].done + 1
    /\ tasks'[t].outcome = CircuitOpen

\* C24: while the circuit breaker is open and its recovery timeout has not
\* elapsed, no request is sent: every tool call, and every remaining retry
\* of a call admitted earlier, ends with the circuit-open error.
C24_NothingSentWhileOpen ==
    [][\A t \in TaskIds :
          Tripped /\ Proceeds(t) /\ ~Refuses(t) => ~Sends(t) /\ Rejects(t)]_vars


\* the steps in which a failure and a success are recorded, and a request
\* is checked against the breaker
FailureRecorded == \E t \in TaskIds : tasks'[t].failures = tasks[t].failures + 1
SuccessRecorded ==
    \E t \in TaskIds :
        /\ tasks[t].pc = "posting"
        /\ tasks'[t].pc = "idle"
        /\ tasks'[t].outcome \in {"ok", JSONDecodeError}
RequestChecked ==
    \E t \in TaskIds : tasks[t].pc = "idle" /\ tasks'[t] # tasks[t] /\ ~Refuses(t)

\* failure_count counts the failures since the last recorded success
CountsFailures ==
    breaker'.failure_count =
        IF FailureRecorded THEN breaker.failure_count + 1
        ELSE IF SuccessRecorded THEN 0
        ELSE breaker.failure_count
\* closed becomes open exactly at the failure that reaches the threshold
Opens ==
    breaker.state = "closed" =>
        /\ breaker.failure_count < FAILURE_THRESHOLD
        /\ breaker'.state \in {"closed", "open"}
        /\ breaker'.state = "open" <=>
               FailureRecorded /\ breaker.failure_count + 1 = FAILURE_THRESHOLD
\* the recovery deadline is set at the opening and never moves back
Deadline ==
    /\ breaker.state # "open" /\ breaker'.state = "open" =>
           breaker'.next_attempt_time = clock + RECOVERY_TIMEOUT
    /\ breaker.state = "open" =>
           breaker'.next_attempt_time >= breaker.next_attempt_time
\* open is left for half-open only, at a check at or after the deadline
Recovers ==
    breaker.state = "open" /\ breaker'.state # "open" =>
        /\ breaker'.state = "half_open"
        /\ RequestChecked
        /\ clock >= breaker.next_attempt_time
\* a success in half-open closes the breaker
Closes ==
    breaker.state = "half_open" /\ SuccessRecorded =>
        breaker'.state = "closed" /\ breaker'.failure_count = 0

\* C25: the breaker moves from CLOSED to OPEN exactly when a recorded
\* failure brings the failure count, the failures since the last recorded
\* success, to FAILURE_THRESHOLD; it leaves OPEN only towards HALF_OPEN and
\* only when a request is checked RECOVERY_TIMEOUT seconds or more after the
\* last opening; a success recorded in HALF_OPEN closes it with count 0.
C25_BreakerMoves ==
    [][CountsFailures /\ Opens /\ Deadline /\ Recovers /\ Closes]_vars

\* the breaker has been open and half-open, and a success has closed it
C25_Witness ==
    /\ breaker.state = "closed"
    /\ breaker.failure_count = 0
    /\ breaker.next_attempt_time > 0
    /\ clock >= breaker.next_attempt_time
    /\ \E t \in TaskIds : tasks[t].outcome = "ok"


\* the steps in which an attempt of a coroutine fails and is answered
AttemptFails(t) ==
    tasks[t].pc = "posting" /\ tasks'[t] # tasks[t] /\ tasks'[t].failed # ""
AttemptAnswered(t) ==
    tasks[t].pc = "posting" /\ tasks'[t] # tasks[t] /\ tasks'[t].failed = ""
\* the step in which call_tool returns or raises
Ends(t) == tasks'[t].pc = "idle" /\ tasks'[t].done = tasks[t].done + 1

\* attempts are numbered from 0 to MCP_RETRIES, and posted in that order
AttemptsBounded == \A t \in TaskIds : tasks[t].attempt <= MCP_RETRIES
AttemptsInOrder(t) ==
    Sends(t) =>
        tasks'[t].attempt = IF tasks[t].pc = "idle" THEN 0 ELSE tasks[t].attempt + 1
\* a failed attempt is retried, and the last one raises its own error
RetriedOrRaised(t) ==
    AttemptFails(t) =>
        IF tasks[t].attempt < MCP_RETRIES
        THEN tasks'[t].pc = "sleeping"
        ELSE Ends(t) /\ tasks'[t].outcome = TransportError(tasks'[t].failed)
Wakes(t) == tasks[t].pc = "sleeping" /\ tasks'[t] # tasks[t] => Sends(t)
\* what the statuses other than 200 raise
StatusErrors(t) ==
    {StatusError(tasks'[t].status, tasks[t].name, body) : body \in Bodies}
\* an answered attempt ends the call: 200 returns, the others raise
AnsweredAsStated(t) ==
    AttemptAnswered(t) =>
        /\ Ends(t)
        /\ tasks'[t].status \in StatusCodes
        /\ IF tasks'[t].status = 200 THEN tasks'[t].outcome = "ok"
           ELSE tasks'[t].outcome \in StatusErrors(t)
\* ... and 200 raises too when its body is not JSON
AnsweredOnce(t) ==
    AttemptAnswered(t) =>
        /\ Ends(t)
        /\ tasks'[t].status \in StatusCodes
        /\ IF tasks'[t].status = 200
           THEN tasks'[t].outcome \in {"ok", JSONDecodeError}
           ELSE tasks'[t].outcome \in StatusErrors(t)

\* C26 as stated: at most MCP_RETRIES + 1 requests per call; a timeout or a
\* transport failure is retried up to that bound; an answered attempt is
\* never retried, 200 returns the result and every other status raises;
\* after the last failed attempt its error is raised.
C26_RetriesAsStated ==
    /\ [](AttemptsBounded)
    /\ [][\A t \in TaskIds :
             AttemptsInOrder(t) /\ RetriedOrRaised(t) /\ Wakes(t)
                 /\ AnsweredAsStated(t)]_vars

\* C26: at most MCP_RETRIES + 1 requests per call; a timeout or a transport
\* failure is retried up to that bound; an answered attempt is never
\* retried: 200 returns the decoded body, or raises the decoding error at
\* once when the body is not JSON, and every other status raises at once;
\* after the last failed attempt its error is raised.
C26_Retries ==
    /\ [](AttemptsBounded)
    /\ [][\A t \in TaskIds :
             AttemptsInOrder(t) /\ RetriedOrRaised(t) /\ Wakes(t)
                 /\ AnsweredOnce(t)]_vars

\* a call has failed MCP_RETRIES + 1 times and raised the error of its last
\* attempt, while another was answered 200 with a body that is not JSON
C26_Witness ==
    /\ tasks[1].pc = "idle"
    /\ tasks[1].failures = MCP_RETRIES + 1
    /\ tasks[1].outcome = TransportError("connection refused")
    /\ tasks[2].status = 200
    /\ tasks[2].outcome = JSONDecodeError


\* the step in which the call of health_check ends, and what health_check
\* then returns
ProbeEnds(t) == Ends(t) /\ tasks'[t].name = HealthProbe
Health(t) == health_check(tasks'[t].outcome)
\* the probe was sent, and failed in transport or was answered with an error
ProbeFailed(t) ==
    \/ tasks'[t].failed # ""
    \/ tasks'[t].status \in StatusCodes /\ tasks'[t].outcome # "ok"

\* C27: health_check returns "healthy" whenever the MCP server answers the
\* probe successfully, and "unhealthy" only when the probe fails or the
\* circuit is open.
C27_HealthAsStated ==
    [][\A t \in TaskIds :
          ProbeEnds(t) =>
              /\ tasks'[t].outcome = "ok" => Health(t).status = "healthy"
              /\ Health(t).status = "unhealthy" => ProbeFailed(t) \/ Tripped]_vars


\* C28: whenever a failure is recorded while the breaker is half-open, the
\* breaker returns to open with a fresh recovery deadline, under every
\* interleaving of the records of concurrently running tool calls.
C28_HalfOpenFailureReopens ==
    [][breaker.state = "half_open" /\ FailureRecorded =>
           /\ breaker'.state = "open"
           /\ breaker'.next_attempt_time = clock + RECOVERY_TIMEOUT]_vars


(***************************************************************************)
(* The generic clarification and the length of the query.                  *)
(***************************************************************************)
\* the whitespace-separated tokens of the query plan_query works on
Tokens == Len(split(Normalized))
GenericClarification == plan.intent = "Clarification needed"
\* condition (a) of plan_query: an identifier together with an overview word
OverviewRequest == TruthyStr(ex.incident_id) /\ AnyIn(Normalized, OverviewWords)
\* no extractor found a person, operator, category, status, priority or
\* time window
NothingDetected ==
    /\ ex.person_match = NONE
    /\ ex.operator_match = NONE
    /\ ex.category_filter = NONE
    /\ ex.status_filter = NONE
    /\ ex.priority_filter = <<>>
    /\ ex.time_filter = <<>>
\* no extractor found a name that is not empty or a window that is not zero
NothingUsable ==
    /\ ~TruthyStr(ex.person_match)
    /\ ~TruthyStr(ex.operator_match)
    /\ ~TruthyStr(ex.category_filter)
    /\ ~TruthyStr(ex.status_filter)
    /\ ex.priority_filter = <<>>
    /\ ~TruthyInt(ex.time_filter)
ShortNeverClarified == Tokens <= 3 => ~GenericClarification
LongAlwaysCalls == Tokens > 5 /\ ~OverviewRequest => plan.tool_calls # <<>>

====
